---- MODULE Spec2Model ----
(***************************************************************************)
(* Model of rhi, a NIP-90 job processor: the order computation engine     *)
(* (EventClassified::calculate_order), the tag resolver                   *)
(* (nostr_tags_resolve), the job request parser (parse_event) and the     *)
(* dispatcher (handle_event, process_job_request and the handlers).       *)
(*                                                                         *)
(* Numbers.  An f64 field is held as an integer count of hundredths       *)
(* (1.0 is 100, 0.01 is 1); intermediate values of the computation are    *)
(* exact rationals <<n, d>> in lowest terms with d > 0.  Differences      *)
(* below f64::EPSILON are below this resolution, so the code's            *)
(* "(a - b).abs() < f64::EPSILON" is equality of the held integers.       *)
(* Only finite values are held (no NaN, no infinity).                     *)
(***************************************************************************)
EXTENDS Integers, Sequences, FiniteSets, TLC

VARIABLES
    listing,    \* calculate_order: &self, the EventClassified priced against
    order,      \* calculate_order: the JobRequestOrderDataOrder argument
    result,     \* calculate_order: the returned Result, or NoResult before the call
    tasks,      \* the tasks spawned by subscriber, one per received job request event
    sends,      \* the calls of client.send_event_builder so far, in order, with outcome
    store,      \* the events the relays hold and deliver to a subscription by id
    intake,     \* main's loop around subscriber: [pc, last, queue, members, arrived,
                \* received]
    listing_event,  \* from_event: the tags of the &Event argument, or None
    classified      \* from_event: the returned EventClassified, or None before the call

vars == <<listing, order, result, tasks, sends, store, intake, listing_event, classified>>

calcVars == <<listing, order, result, listing_event, classified>>
taskVars == <<tasks, sends, store, intake>>

(***************************************************************************)
(* Bounds of the model.                                                    *)
(***************************************************************************)
MaxQuantities == 1
MaxPrices == 2
MaxDiscounts == 2
MaxCount == 2
MaxInputs == 2
MaxTags == 3

BSeq(S, n) == UNION {[1..k -> S] : k \in 0..n}

(***************************************************************************)
(* Exact rational arithmetic standing for the f64 operations.              *)
(***************************************************************************)
Abs(x) == IF x < 0 THEN -x ELSE x

RECURSIVE GCD(_, _)
GCD(a, b) == IF b = 0 THEN a ELSE GCD(b, a % b)

Rat(n, d) ==
    LET g == GCD(Abs(n), d)
    IN  IF n = 0 THEN <<0, 1>> ELSE <<n \div g, d \div g>>

\* a * b, cancelling across before multiplying
RMul(a, b) ==
    LET x == Rat(a[1], b[2])
        y == Rat(b[1], a[2])
    IN  <<x[1] * y[1], x[2] * y[2]>>

\* a / b for b > 0
RDiv(a, b) == RMul(a, <<b[2], b[1]>>)

RLess(a, b) == a[1] * b[2] < b[1] * a[2]

\* f64::round: to the nearest integer, halves away from zero
Round(r) ==
    IF r[1] >= 0 THEN (2 * r[1] + r[2]) \div (2 * r[2])
    ELSE -((2 * (-r[1]) + r[2]) \div (2 * r[2]))

\* the f64 a field of hundredths c stands for
F64(c) == Rat(c, 100)

\* (x * 100.0).round() / 100.0, as the count of hundredths
Round2(x) == Round(RMul(x, <<100, 1>>))

(***************************************************************************)
(* utils/unit.rs                                                           *)
(***************************************************************************)
MassUnits == {"G", "Kg", "Oz", "Lb"}

\* MassUnit::from_str
MassUnitBadResult == [ok |-> FALSE]
MassUnitFromStr(s) ==
    CASE s = "g"  -> [ok |-> TRUE, unit |-> "G"]
      [] s = "kg" -> [ok |-> TRUE, unit |-> "Kg"]
      [] s = "oz" -> [ok |-> TRUE, unit |-> "Oz"]
      [] s = "lb" -> [ok |-> TRUE, unit |-> "Lb"]
      [] OTHER    -> MassUnitBadResult

\* MassUnit::to_grams: 1.0, 1000.0, 28.3495, 453.592
to_grams(u) ==
    CASE u = "G"  -> Rat(1, 1)
      [] u = "Kg" -> Rat(1000, 1)
      [] u = "Oz" -> Rat(283495, 10000)
      [] u = "Lb" -> Rat(453592, 1000)

convert_mass(amount, from_unit, to_unit) ==
    RDiv(RMul(amount, to_grams(from_unit)), to_grams(to_unit))

(***************************************************************************)
(* Strings.                                                                *)
(***************************************************************************)
\* str::to_lowercase on the strings of the model
to_lowercase(s) ==
    CASE s = "KG"  -> "kg"
      [] s = "Kg"  -> "kg"
      [] s = "G"   -> "g"
      [] s = "LB"  -> "lb"
      [] s = "OZ"  -> "oz"
      [] s = "USD" -> "usd"
      [] s = "Usd" -> "usd"
      [] s = "EUR" -> "eur"
      [] OTHER     -> s

\* Display of an f64 held as hundredths: 1.0 is "1", 0.5 is "0.5", 1.25 is "1.25"
FmtF64(c) ==
    LET whole == c \div 100
        frac  == c % 100
    IN  IF frac = 0 THEN ToString(whole)
        ELSE IF frac % 10 = 0 THEN ToString(whole) \o "." \o ToString(frac \div 10)
        ELSE IF frac < 10 THEN ToString(whole) \o ".0" \o ToString(frac)
        ELSE ToString(whole) \o "." \o ToString(frac)

(***************************************************************************)
(* models/event_classified.rs: EventClassified::calculate_order            *)
(***************************************************************************)
None == <<>>
Some(x) == <<x>>

NoResult == [ok |-> FALSE, err |-> "not called"]

\* Err(JobRequestOrderError::Unsatisfiable(reason))
Unsatisfiable(reason) == [ok |-> FALSE, err |-> "Unsatisfiable", reason |-> reason]

\* mutant: packagings compared by mass in grams, so 1000 g matches 1 kg
matched_packaging_converted(self, quantity, qty_unit) ==
    \E i \in 1..Len(self.quantities) :
        convert_mass(F64(self.quantities[i].amount), self.quantities[i].unit, "G")
            = convert_mass(F64(quantity.amount), qty_unit, "G")

\* mutant: a packaging matches only under the label of the request
matched_packaging_labelled(self, quantity, qty_unit) ==
    \E i \in 1..Len(self.quantities) :
        /\ self.quantities[i].unit = qty_unit
        /\ self.quantities[i].amount = quantity.amount
        /\ self.quantities[i].label = quantity.label

\* self.quantities.iter().any(|q| q.unit == qty_unit && (q.amount - quantity.amount).abs() < EPSILON)
matched_packaging(self, quantity, qty_unit) ==
    \E i \in 1..Len(self.quantities) :
        /\ self.quantities[i].unit = qty_unit
        /\ self.quantities[i].amount = quantity.amount

\* the predicate of self.prices.iter().find(..)
tier_matches(p, price, price_unit) ==
    /\ p.quantity_unit = price_unit
    /\ p.quantity_amount = price.quantity_amount
    /\ to_lowercase(p.currency) = to_lowercase(price.currency)

\* mutant: among the matching tiers one with the quoted amount is preferred
matched_tier_quoted(self, price, price_unit) ==
    LET hits == {i \in 1..Len(self.prices) : tier_matches(self.prices[i], price, price_unit)}
        same == {i \in hits : self.prices[i].amount = price.amount}
    IN  IF hits = {} THEN 0
        ELSE IF same # {} THEN CHOOSE i \in same : \A j \in same : i <= j
        ELSE CHOOSE i \in hits : \A j \in hits : i <= j

\* self.prices.iter().find(..): the index of the first matching tier, 0 for None
matched_tier(self, price, price_unit) ==
    LET hits == {i \in 1..Len(self.prices) : tier_matches(self.prices[i], price, price_unit)}
    IN  IF hits = {} THEN 0 ELSE CHOOSE i \in hits : \A j \in hits : i <= j

\* mutant: the difference compared without abs(), so a higher quote passes
price_mismatch_signed(tier, price) == tier.amount > price.amount

\* (tier.amount - price.amount).abs() > f64::EPSILON
price_mismatch(tier, price) == tier.amount # price.amount

\* converted_qty, unit_price and subtotal (hundredths)
order_subtotal(tier, total_qty, qty_unit, price_unit) ==
    LET converted_qty == convert_mass(F64(total_qty), qty_unit, price_unit)
        unit_price    == RDiv(F64(tier.amount), F64(tier.quantity_amount))
    IN  Round2(RMul(unit_price, converted_qty))

\* format!("{}-{}-{}", quantity.amount, quantity.unit.to_lowercase(), quantity.label)
package_key(quantity) ==
    FmtF64(quantity.amount) \o "-" \o to_lowercase(quantity.unit) \o "-" \o quantity.label

Skip == [kind |-> "continue"]
Push(d) == [kind |-> "push", d |-> d]
Fail(reason) == [kind |-> "err", reason |-> reason]

\* the arm EventClassifiedDiscount::Subtotal
discount_subtotal(d, subtotal) ==
    IF subtotal < d.threshold THEN Skip
    ELSE LET amt == IF d.is_percent
                    THEN Round2(RDiv(RMul(F64(subtotal), F64(d.value)), <<100, 1>>))
                    ELSE Round2(F64(d.value))
         IN  Push([discount_type |-> "subtotal",
                   threshold |-> Some(d.threshold),
                   threshold_unit |-> None,
                   discount_per_unit |-> None,
                   discount_unit |-> None,
                   discount_percent |-> IF d.is_percent THEN Some(d.value) ELSE None,
                   discount_amount |-> amt,
                   currency |-> d.currency])

\* mutant: the amount computed on the mass in threshold_unit
discount_mass_threshold_unit(d, total_qty, qty_unit) ==
    LET th  == MassUnitFromStr(d.threshold_unit)
        dis == MassUnitFromStr(d.discount_unit)
    IN  IF ~th.ok THEN Fail("invalid threshold unit")
        ELSE IF ~dis.ok THEN Fail("invalid discount unit")
        ELSE IF RLess(convert_mass(F64(total_qty), qty_unit, th.unit), F64(d.threshold))
        THEN Skip
        ELSE LET qty_in_th == convert_mass(F64(total_qty), qty_unit, th.unit)
                 amt == Round2(RMul(qty_in_th, F64(d.discount_per_unit)))
             IN  Push([discount_type |-> "mass",
                       threshold |-> Some(d.threshold),
                       threshold_unit |-> Some(d.threshold_unit),
                       discount_per_unit |-> Some(d.discount_per_unit),
                       discount_unit |-> Some(d.discount_unit),
                       discount_percent |-> None,
                       discount_amount |-> amt,
                       currency |-> d.currency])

\* mutant: discount_unit is parsed only once the threshold is reached
discount_mass_lazy(d, total_qty, qty_unit) ==
    LET th  == MassUnitFromStr(d.threshold_unit)
        dis == MassUnitFromStr(d.discount_unit)
    IN  IF ~th.ok THEN Fail("invalid threshold unit")
        ELSE IF RLess(convert_mass(F64(total_qty), qty_unit, th.unit), F64(d.threshold))
        THEN Skip
        ELSE IF ~dis.ok THEN Fail("invalid discount unit")
        ELSE LET qty_in_dis == convert_mass(F64(total_qty), qty_unit, dis.unit)
                 amt == Round2(RMul(qty_in_dis, F64(d.discount_per_unit)))
             IN  Push([discount_type |-> "mass",
                       threshold |-> Some(d.threshold),
                       threshold_unit |-> Some(d.threshold_unit),
                       discount_per_unit |-> Some(d.discount_per_unit),
                       discount_unit |-> Some(d.discount_unit),
                       discount_percent |-> None,
                       discount_amount |-> amt,
                       currency |-> d.currency])

\* the arm EventClassifiedDiscount::Mass
discount_mass(d, total_qty, qty_unit) ==
    LET th  == MassUnitFromStr(d.threshold_unit)
        dis == MassUnitFromStr(d.discount_unit)
    IN  IF ~th.ok THEN Fail("invalid threshold unit")
        ELSE IF ~dis.ok THEN Fail("invalid discount unit")
        ELSE IF RLess(convert_mass(F64(total_qty), qty_unit, th.unit), F64(d.threshold))
        THEN Skip
        ELSE LET qty_in_dis == convert_mass(F64(total_qty), qty_unit, dis.unit)
                 amt == Round2(RMul(qty_in_dis, F64(d.discount_per_unit)))
             IN  Push([discount_type |-> "mass",
                       threshold |-> Some(d.threshold),
                       threshold_unit |-> Some(d.threshold_unit),
                       discount_per_unit |-> Some(d.discount_per_unit),
                       discount_unit |-> Some(d.discount_unit),
                       discount_percent |-> None,
                       discount_amount |-> amt,
                       currency |-> d.currency])

\* mutant: the count must exceed min_count
discount_quantity_strict(d, quantity, pkey) ==
    IF d.product_key # pkey \/ quantity.count <= d.min_count THEN Skip
    ELSE LET amt == Round2(RMul(F64(d.discount_per_unit), <<quantity.count, 1>>))
         IN  Push([discount_type |-> "quantity",
                   threshold |-> Some(d.min_count * 100),
                   threshold_unit |-> None,
                   discount_per_unit |-> Some(d.discount_per_unit),
                   discount_unit |-> None,
                   discount_percent |-> None,
                   discount_amount |-> amt,
                   currency |-> d.currency])

\* the arm EventClassifiedDiscount::Quantity
discount_quantity(d, quantity, pkey) ==
    IF d.product_key # pkey \/ quantity.count < d.min_count THEN Skip
    ELSE LET amt == Round2(RMul(F64(d.discount_per_unit), <<quantity.count, 1>>))
         IN  Push([discount_type |-> "quantity",
                   threshold |-> Some(d.min_count * 100),
                   threshold_unit |-> None,
                   discount_per_unit |-> Some(d.discount_per_unit),
                   discount_unit |-> None,
                   discount_percent |-> None,
                   discount_amount |-> amt,
                   currency |-> d.currency])

\* match d { .. }
discount_arm(d, quantity, subtotal, total_qty, qty_unit, pkey) ==
    CASE d.type = "subtotal" -> discount_subtotal(d, subtotal)
      [] d.type = "mass"     -> discount_mass(d, total_qty, qty_unit)
      [] d.type = "quantity" -> discount_quantity(d, quantity, pkey)

\* mutant: each discount is evaluated on the subtotal less the discounts pushed so far
RECURSIVE discount_loop_running(_, _, _, _, _, _, _, _)
discount_loop_running(ds, i, acc, quantity, subtotal, total_qty, qty_unit, pkey) ==
    IF i > Len(ds) THEN [ok |-> TRUE, discounts |-> acc]
    ELSE LET r == discount_arm(ds[i], quantity, subtotal, total_qty, qty_unit, pkey)
         IN  CASE r.kind = "err"      -> Unsatisfiable(r.reason)
               [] r.kind = "continue" ->
                    discount_loop_running(ds, i + 1, acc, quantity, subtotal, total_qty,
                                          qty_unit, pkey)
               [] r.kind = "push"     ->
                    discount_loop_running(ds, i + 1, Append(acc, r.d), quantity,
                                          subtotal - r.d.discount_amount, total_qty,
                                          qty_unit, pkey)

\* for d in &self.discounts { .. }: the pushed discounts, or the error of the first "?"
RECURSIVE discount_loop(_, _, _, _, _, _, _, _)
discount_loop(ds, i, acc, quantity, subtotal, total_qty, qty_unit, pkey) ==
    IF i > Len(ds) THEN [ok |-> TRUE, discounts |-> acc]
    ELSE LET r == discount_arm(ds[i], quantity, subtotal, total_qty, qty_unit, pkey)
         IN  CASE r.kind = "err"      -> Unsatisfiable(r.reason)
               [] r.kind = "continue" ->
                    discount_loop(ds, i + 1, acc, quantity, subtotal, total_qty, qty_unit, pkey)
               [] r.kind = "push"     ->
                    discount_loop(ds, i + 1, Append(acc, r.d), quantity, subtotal,
                                  total_qty, qty_unit, pkey)

\* discounts.iter().map(|d| d.discount_amount).sum()
RECURSIVE total_discount(_, _)
total_discount(discounts, i) ==
    IF i > Len(discounts) THEN 0
    ELSE discounts[i].discount_amount + total_discount(discounts, i + 1)

\* mutant: the total clamped at zero
order_total_clamped(subtotal, discounts) ==
    IF subtotal < total_discount(discounts, 1) THEN 0
    ELSE Round2(F64(subtotal - total_discount(discounts, 1)))

\* ((subtotal - total_discount) * 100.0).round() / 100.0
order_total(subtotal, discounts) ==
    Round2(F64(subtotal - total_discount(discounts, 1)))

calculate_order(self, ord) ==
    LET quantity == ord.quantity
        price    == ord.price
        qu       == MassUnitFromStr(quantity.unit)
        pu       == MassUnitFromStr(price.quantity_unit)
        total_qty == quantity.amount * quantity.count
    IN  IF ~qu.ok THEN Unsatisfiable("invalid quantity unit")
        ELSE IF ~pu.ok THEN Unsatisfiable("invalid price quantity unit")
        ELSE IF ~matched_packaging(self, quantity, qu.unit)
        THEN Unsatisfiable("requested packaging " \o FmtF64(quantity.amount) \o " "
                           \o quantity.unit \o " not available")
        ELSE LET t == matched_tier(self, price, pu.unit)
             IN  IF t = 0
                 THEN Unsatisfiable("no matching price tier " \o FmtF64(price.quantity_amount)
                                    \o " " \o price.quantity_unit \o " found")
                 ELSE LET tier == self.prices[t]
                      IN  IF price_mismatch(tier, price)
                          THEN Unsatisfiable("price mismatch: expected " \o FmtF64(tier.amount)
                                             \o ", got " \o FmtF64(price.amount))
                          ELSE LET subtotal == order_subtotal(tier, total_qty, qu.unit, pu.unit)
                                   dl == discount_loop(self.discounts, 1, <<>>, quantity,
                                                       subtotal, total_qty, qu.unit,
                                                       package_key(quantity))
                               IN  IF ~dl.ok THEN dl
                                   ELSE [ok |-> TRUE,
                                         quantity |-> [amount |-> quantity.amount,
                                                       unit |-> quantity.unit,
                                                       label |-> quantity.label],
                                         price |-> [amount |-> tier.amount,
                                                    currency |-> tier.currency,
                                                    quantity_amount |-> tier.quantity_amount,
                                                    quantity_unit |-> price.quantity_unit],
                                         discounts |-> dl.discounts,
                                         subtotal |-> [price_amount |-> subtotal,
                                                       price_currency |-> tier.currency,
                                                       quantity_amount |-> total_qty,
                                                       quantity_unit |-> quantity.unit],
                                         total |-> [price_amount |-> order_total(subtotal, dl.discounts),
                                                    price_currency |-> tier.currency,
                                                    quantity_amount |-> total_qty,
                                                    quantity_unit |-> quantity.unit]]

(***************************************************************************)
(* Inputs of calculate_order: listings and orders built from small pools.  *)
(* Amounts are hundredths: 100 is 1.0, 50000 is 500.0, 1 is 0.01.          *)
(***************************************************************************)
QuantityPool ==
    { [amount |-> 100, unit |-> "Kg", label |-> "bag"],
      [amount |-> 100, unit |-> "Lb", label |-> "box"] }

PricePool ==
    { [amount |-> 1000, currency |-> "usd", quantity_amount |-> 100, quantity_unit |-> "Kg"],
      [amount |-> 1100, currency |-> "USD", quantity_amount |-> 100, quantity_unit |-> "Kg"] }

DiscountPool ==
    { [type |-> "subtotal", threshold |-> 500, currency |-> "usd", value |-> 1000,
       is_percent |-> TRUE],
      [type |-> "subtotal", threshold |-> 0, currency |-> "usd", value |-> 2500,
       is_percent |-> FALSE],
      [type |-> "mass", discount_unit |-> "g", threshold |-> 100, threshold_unit |-> "kg",
       discount_per_unit |-> 1, currency |-> "usd"],
      [type |-> "mass", discount_unit |-> "oz", threshold |-> 100, threshold_unit |-> "KG",
       discount_per_unit |-> 50, currency |-> "usd"],
      [type |-> "quantity", product_key |-> "1-kg-bag", min_count |-> 2,
       discount_per_unit |-> 50, currency |-> "usd"] }

Listings ==
    [ quantities : BSeq(QuantityPool, MaxQuantities),
      prices     : BSeq(PricePool, MaxPrices),
      discounts  : BSeq(DiscountPool, MaxDiscounts) ]

\* requested packagings: 1 kg, 1 lb, 500 g, 1000 g, and 1 "KG" (not a MassUnit string)
OrderPackagings ==
    { <<100, "kg">>, <<100, "lb">>, <<50000, "g">>, <<100000, "g">>, <<100, "KG">> }

OrderQuantities ==
    { [amount |-> p[1], unit |-> p[2], count |-> c, mass_g |-> 0, label |-> l] :
        p \in OrderPackagings, c \in 1..MaxCount, l \in {"bag", "box"} }

\* requested tiers: the last has a unit string that is not a MassUnit string
OrderPrices ==
    { [amount |-> 1000, currency |-> "usd", quantity_amount |-> 100, quantity_unit |-> "kg"],
      [amount |-> 1100, currency |-> "usd", quantity_amount |-> 100, quantity_unit |-> "kg"],
      [amount |-> 1000, currency |-> "eur", quantity_amount |-> 100, quantity_unit |-> "kg"],
      [amount |-> 1000, currency |-> "usd", quantity_amount |-> 100, quantity_unit |-> "Kg"] }

Orders == [ price : OrderPrices, quantity : OrderQuantities ]

(***************************************************************************)
(* SpecOrder: one call of calculate_order on any listing and any order.    *)
(***************************************************************************)
\* the intake loop is not running
IntakeOff ==
    [pc |-> "off", last |-> "none", queue |-> <<>>, members |-> {}, arrived |-> {},
     received |-> <<>>]

TaskIdle ==
    /\ tasks = <<>>
    /\ sends = <<>>
    /\ store = {}
    /\ intake = IntakeOff

InitOrder ==
    /\ listing \in Listings
    /\ order \in Orders
    /\ result = NoResult
    /\ listing_event = None
    /\ classified = None
    /\ TaskIdle

CalculateOrder ==
    /\ result = NoResult
    /\ result' = calculate_order(listing, order)
    /\ UNCHANGED <<listing, order, listing_event, classified>>
    /\ UNCHANGED taskVars

NextOrder == CalculateOrder

SpecOrder == InitOrder /\ [][NextOrder]_vars

(***************************************************************************)
(* Properties of calculate_order, checked under SpecOrder.                 *)
(***************************************************************************)
Done == result # NoResult

\* the unit string a MassUnit is written as (g, kg, oz, lb)
MassUnitDisplay(u) ==
    CASE u = "G"  -> "g"
      [] u = "Kg" -> "kg"
      [] u = "Oz" -> "oz"
      [] u = "Lb" -> "lb"

\* grams per unit as the data model states them: g=1, kg=1000, oz=28.3495, lb=453.592
GramsPer(s) ==
    CASE s = "g"  -> <<1, 1>>
      [] s = "kg" -> <<1000, 1>>
      [] s = "oz" -> <<56699, 2000>>
      [] s = "lb" -> <<56699, 125>>

\* the ordered mass quantity.amount * quantity.count, expressed in unit s
OrderedMassIn(s) ==
    RDiv(RMul(F64(order.quantity.amount * order.quantity.count),
              GramsPer(order.quantity.unit)),
         GramsPer(s))

PackagingOffered ==
    \E i \in 1..Len(listing.quantities) :
        /\ MassUnitDisplay(listing.quantities[i].unit) = order.quantity.unit
        /\ listing.quantities[i].amount = order.quantity.amount

OnlyOneKgOffered ==
    /\ Len(listing.quantities) >= 1
    /\ \A i \in 1..Len(listing.quantities) :
          listing.quantities[i].unit = "Kg" /\ listing.quantities[i].amount = 100

UnitStrings == {"g", "kg", "oz", "lb"}

\* the request is for 500 g or 1000 g and the listing offers 1 kg only
GramsAgainstOneKg ==
    /\ OnlyOneKgOffered
    /\ order.quantity.unit = "g"
    /\ order.quantity.amount \in {50000, 100000}

NamesPackaging ==
    result = Unsatisfiable("requested packaging "
                           \o (IF order.quantity.amount = 50000 THEN "500" ELSE "1000")
                           \o " g not available")

\* C2 as claimed: calculate_order returns a result or Unsatisfiable and nothing else;
\* a result only if a listing quantity has the requested unit and amount; 500 g or
\* 1000 g against a listing of 1 kg only fails Unsatisfiable naming the packaging.
C2_Claimed ==
    Done =>
      /\ result.ok \/ result.err = "Unsatisfiable"
      /\ result.ok => PackagingOffered
      /\ GramsAgainstOneKg => NamesPackaging

\* C2 (amended): calculate_order returns a result or Unsatisfiable and nothing else;
\* a result only if a listing quantity has the requested unit and amount (no
\* conversion); 500 g or 1000 g against a listing of 1 kg only always fails
\* Unsatisfiable, naming the requested packaging when the request's price
\* quantity_unit is one of g, kg, oz, lb and naming the invalid price unit otherwise.
C2_PackagingMatch ==
    Done =>
      /\ result.ok \/ result.err = "Unsatisfiable"
      /\ result.ok => PackagingOffered
      /\ GramsAgainstOneKg =>
            /\ ~result.ok
            /\ order.price.quantity_unit \in UnitStrings => NamesPackaging
            /\ order.price.quantity_unit \notin UnitStrings
                  => result = Unsatisfiable("invalid price quantity unit")

C2_Witness ==
    /\ Done
    /\ GramsAgainstOneKg
    /\ order.quantity.amount = 100000
    /\ NamesPackaging

SameTier(p) ==
    /\ MassUnitDisplay(p.quantity_unit) = order.price.quantity_unit
    /\ p.quantity_amount = order.price.quantity_amount
    /\ to_lowercase(p.currency) = to_lowercase(order.price.currency)

SameTiers == {i \in 1..Len(listing.prices) : SameTier(listing.prices[i])}

FirstSameTier == CHOOSE i \in SameTiers : \A j \in SameTiers : i <= j

C28_WitnessFirst ==
    /\ Done
    /\ Cardinality(SameTiers) = 2
    /\ listing.prices[1].amount = 1000
    /\ listing.prices[2].amount = 1100
    /\ order.price.amount = 1000
    /\ result.ok
    /\ result.price.currency = listing.prices[1].currency

RECURSIVE SumAmounts(_)
SumAmounts(ds) ==
    IF ds = <<>> THEN 0 ELSE Head(ds).discount_amount + SumAmounts(Tail(ds))

HappyListing ==
    [quantities |-> <<[amount |-> 100, unit |-> "Kg", label |-> "bag"]>>,
     prices     |-> <<[amount |-> 1000, currency |-> "usd", quantity_amount |-> 100,
                       quantity_unit |-> "Kg"]>>,
     discounts  |-> <<[type |-> "subtotal", threshold |-> 500, currency |-> "usd",
                       value |-> 1000, is_percent |-> TRUE]>>]

HappyOrder ==
    [price    |-> [amount |-> 1000, currency |-> "usd", quantity_amount |-> 100,
                   quantity_unit |-> "kg"],
     quantity |-> [amount |-> 100, unit |-> "kg", count |-> 2, mass_g |-> 0,
                   label |-> "bag"]]

\* C4: in a successful result subtotal = round2(tier.amount / tier.quantity_amount *
\* ordered mass in the tier's unit) and total = round2(subtotal - sum of the result's
\* discount amounts), not clamped at zero; the happy path (1 kg bag, 10 usd per kg,
\* 10% from 5, count 2) gives subtotal 20.00, one discount of 2.00 and total 18.00.
C4_SubtotalAndTotal ==
    (Done /\ result.ok) =>
      /\ result.subtotal.price_amount =
            Round2(RMul(RDiv(F64(result.price.amount), F64(result.price.quantity_amount)),
                        OrderedMassIn(result.price.quantity_unit)))
      /\ result.total.price_amount =
            Round2(F64(result.subtotal.price_amount - SumAmounts(result.discounts)))
      /\ (SumAmounts(result.discounts) > result.subtotal.price_amount)
            => result.total.price_amount < 0
      /\ (listing = HappyListing /\ order = HappyOrder) =>
            /\ result.subtotal.price_amount = 2000
            /\ Len(result.discounts) = 1
            /\ result.discounts[1].discount_amount = 200
            /\ result.total.price_amount = 1800

C4_Witness ==
    /\ Done
    /\ result.ok
    /\ listing = HappyListing
    /\ order = HappyOrder
    /\ result.total.price_amount = 1800

C4_WitnessNegative ==
    Done /\ result.ok /\ result.total.price_amount < 0

\* the applicability condition of a listing discount, on the undiscounted subtotal
RequestedKey ==
    FmtF64(order.quantity.amount) \o "-" \o to_lowercase(order.quantity.unit)
        \o "-" \o order.quantity.label

Applies(d) ==
    CASE d.type = "subtotal" -> result.subtotal.price_amount >= d.threshold
      [] d.type = "mass"     -> ~RLess(OrderedMassIn(d.threshold_unit), F64(d.threshold))
      [] d.type = "quantity" ->
            d.product_key = RequestedKey /\ order.quantity.count >= d.min_count

\* the amount of an applying discount, in hundredths
AmountOf(d) ==
    CASE d.type = "subtotal" ->
            IF d.is_percent
            THEN Round2(RDiv(RMul(F64(result.subtotal.price_amount), F64(d.value)), <<100, 1>>))
            ELSE Round2(F64(d.value))
      [] d.type = "mass"     ->
            Round2(RMul(OrderedMassIn(d.discount_unit), F64(d.discount_per_unit)))
      [] d.type = "quantity" ->
            Round2(RMul(F64(d.discount_per_unit), <<order.quantity.count, 1>>))

\* C5: the discounts of a successful result are exactly the listing's discounts that
\* apply, one entry each, in listing order; applicability and percent amounts use the
\* undiscounted subtotal, and no applying discount is left out because another applied.
C5_AllApplicableDiscounts ==
    (Done /\ result.ok) =>
      LET app == SelectSeq(listing.discounts, Applies)
      IN  /\ Len(result.discounts) = Len(app)
          /\ \A i \in 1..Len(app) :
                /\ result.discounts[i].discount_type = app[i].type
                /\ result.discounts[i].discount_amount = AmountOf(app[i])
                /\ result.discounts[i].currency = app[i].currency

\* two discounts apply together, the second a percentage of the undiscounted subtotal
C5_Witness ==
    /\ Done
    /\ result.ok
    /\ Len(listing.discounts) = 2
    /\ Len(result.discounts) = 2
    /\ listing.discounts[1].type = "subtotal" /\ ~listing.discounts[1].is_percent
    /\ listing.discounts[2].type = "subtotal" /\ listing.discounts[2].is_percent
    /\ result.discounts[2].discount_amount * 10 = result.subtotal.price_amount

IsQuantityEntry(e) == e.discount_type = "quantity"

QuantityApplies(d) ==
    /\ d.type = "quantity"
    /\ d.product_key = RequestedKey
    /\ order.quantity.count >= d.min_count

\* the label a product key of the pool ends with
KeyLabel(k) == CASE k = "1-kg-bag" -> "bag"

\* C6: a Quantity discount is in the result iff the key "{amount}-{lowercased unit}-
\* {label}" of the requested quantity equals product_key and count >= min_count; its
\* amount is round2(discount_per_unit * count); a request whose label differs from the
\* product key's label never receives it, whatever the count.
C6_QuantityDiscount ==
    (Done /\ result.ok) =>
      LET got  == SelectSeq(result.discounts, IsQuantityEntry)
          want == SelectSeq(listing.discounts, QuantityApplies)
      IN  /\ Len(got) = Len(want)
          /\ \A i \in 1..Len(want) :
                /\ got[i].discount_amount = want[i].discount_per_unit * order.quantity.count
                /\ got[i].discount_per_unit = Some(want[i].discount_per_unit)
          /\ \A i \in 1..Len(listing.discounts) :
                ( /\ listing.discounts[i].type = "quantity"
                  /\ KeyLabel(listing.discounts[i].product_key) # order.quantity.label )
                => ~QuantityApplies(listing.discounts[i])
          /\ (\A i \in 1..Len(listing.discounts) :
                listing.discounts[i].type = "quantity"
                => KeyLabel(listing.discounts[i].product_key) # order.quantity.label)
             => got = <<>>

\* 2 bags of 1 kg against "1-kg-bag" from 2: the discount is 2 * 0.50
C6_Witness ==
    /\ Done
    /\ result.ok
    /\ order.quantity.count = 2
    /\ order.quantity.label = "bag"
    /\ \E i \in 1..Len(result.discounts) :
          IsQuantityEntry(result.discounts[i]) /\ result.discounts[i].discount_amount = 100

\* a label other than the key's: no discount though the count reaches min_count
C6_WitnessLabel ==
    /\ Done
    /\ result.ok
    /\ order.quantity.count >= 2
    /\ order.quantity.label = "box"
    /\ \E i \in 1..Len(listing.discounts) : listing.discounts[i].type = "quantity"

IsMassEntry(e) == e.discount_type = "mass"

MassApplies(d) ==
    /\ d.type = "mass"
    /\ ~RLess(OrderedMassIn(d.threshold_unit), F64(d.threshold))

GramPerKiloDiscount ==
    [type |-> "mass", discount_unit |-> "g", threshold |-> 100, threshold_unit |-> "kg",
     discount_per_unit |-> 1, currency |-> "usd"]

\* C7: a Mass discount is in the result iff the ordered mass in threshold_unit is >=
\* threshold; its amount is round2(ordered mass in discount_unit * discount_per_unit);
\* {g, 1, kg, 0.01} on a 2 kg order gives 20.00.
C7_MassDiscount ==
    (Done /\ result.ok) =>
      LET got  == SelectSeq(result.discounts, IsMassEntry)
          want == SelectSeq(listing.discounts, MassApplies)
      IN  /\ Len(got) = Len(want)
          /\ \A i \in 1..Len(want) :
                got[i].discount_amount =
                    Round2(RMul(OrderedMassIn(want[i].discount_unit),
                                F64(want[i].discount_per_unit)))
          /\ \A i \in 1..Len(want) :
                ( /\ want[i] = GramPerKiloDiscount
                  /\ order.quantity.unit = "kg"
                  /\ order.quantity.amount * order.quantity.count = 200 )
                => got[i].discount_amount = 2000

C7_Witness ==
    /\ Done
    /\ result.ok
    /\ order.quantity.unit = "kg"
    /\ order.quantity.amount * order.quantity.count = 200
    /\ \E i \in 1..Len(listing.discounts) : listing.discounts[i] = GramPerKiloDiscount
    /\ \E i \in 1..Len(result.discounts) :
          IsMassEntry(result.discounts[i]) /\ result.discounts[i].discount_amount = 2000

\* the ordered mass is below the threshold: the Mass discount is not in the result
C7_WitnessBelow ==
    /\ Done
    /\ result.ok
    /\ \E i \in 1..Len(listing.discounts) :
          listing.discounts[i].type = "mass" /\ ~MassApplies(listing.discounts[i])

(***************************************************************************)
(* Events, tags and keys.  A tag is a non-empty sequence of strings, its   *)
(* first string the kind.  An event is [id, kind, pubkey, tags, content].  *)
(***************************************************************************)
OwnKey == "me"              \* keys.public_key() of the processor
PublicKeys == {"me", "other"}
EventIds == {"e1", "j0", "j1"}    \* the strings EventId::from_hex accepts

\* str::parse::<PublicKey>().ok()
ParsePublicKey(s) == IF s \in PublicKeys THEN Some(s) ELSE None

\* Tag::content: the second string of the tag
TagContent(tag) == IF Len(tag) >= 2 THEN Some(tag[2]) ELSE None

\* nostr_tag_first_value
nostr_tag_first_value(tag, key) == IF tag[1] = key THEN TagContent(tag) ELSE None

\* nostr_tag_at_value
nostr_tag_at_value(tag, index) == IF Len(tag) >= index + 1 THEN Some(tag[index + 1]) ELSE None

\* nostr_tag_slice(tag, 1): the values after the kind
nostr_tag_values(tag) == SubSeq(tag, 2, Len(tag))

\* the content of an event that is not a NIP-04 ciphertext
PlainContent == [cipher |-> FALSE, for |-> "none", json |-> FALSE, tags |-> <<>>]

\* nip04::decrypt(keys.secret_key(), &event.pubkey, &event.content): the cleartext of
\* a ciphertext made for the processor's key, an error for anything else
nip04_decrypt(key, content) ==
    IF content.cipher /\ content.for = key
    THEN [ok |-> TRUE, json |-> content.json, tags |-> content.tags]
    ELSE [ok |-> FALSE]

\* serde_json::from_str::<Tags>(&cleartext)
tags_from_json(clear) ==
    IF clear.json THEN [ok |-> TRUE, tags |-> clear.tags] ELSE [ok |-> FALSE]

(***************************************************************************)
(* Errors: [variant, arg], and their Display text (thiserror attributes).  *)
(***************************************************************************)
Err(variant, arg) == [variant |-> variant, arg |-> arg]

ErrorText(e) ==
    CASE e.variant = "MissingPTag"      ->
            "Missing public key tag in encrypted event: " \o e.arg
      [] e.variant = "NotRecipient"     -> "Encrypted event recipient mismatch"
      [] e.variant = "DecryptionError"  -> "Decryption error: " \o e.arg
      [] e.variant = "ParseError"       -> "Failed to parse decrypted tag JSON: " \o e.arg
      [] e.variant = "InvalidInputType" -> "Invalid job request input type: " \o e.arg
      [] e.variant = "InvalidInputMarker" ->
            "Invalid job request input marker: " \o e.arg
      [] e.variant = "Serde"            -> "Deserialization error: " \o e.arg
      [] e.variant = "ReferenceEventFetch" ->
            "Order: Failure to fetch the reference event " \o e.arg
      [] e.variant = "ReferenceEventMissing" ->
            "Order: Reference event not found " \o e.arg
      [] e.variant = "ReferenceEventParse" ->
            "Order: Failure to parse the reference event " \o e.arg
      [] e.variant = "ReferenceEventMissingRequested" ->
            "Order: Reference event does not satisfy requested " \o e.arg
      [] e.variant = "ResponseEventSendFailure" ->
            "Order: Failure sending the job response"

(***************************************************************************)
(* utils/nostr.rs: nostr_tags_resolve                                      *)
(***************************************************************************)
\* event.tags.iter().any(|t| t.kind() == TagKind::Encrypted)
is_encrypted(event) == \E k \in 1..Len(event.tags) : event.tags[k][1] = "encrypted"

\* the closure of find_map: the key of a p tag whose content parses as a PublicKey
recipient_of_tag(tag) ==
    IF tag[1] = "p" /\ TagContent(tag) # None
    THEN ParsePublicKey(TagContent(tag)[1])
    ELSE None

\* event.tags.iter().find_map(..): the first such key
find_recipient(event) ==
    LET hits == {k \in 1..Len(event.tags) : recipient_of_tag(event.tags[k]) # None}
    IN  IF hits = {} THEN None
        ELSE recipient_of_tag(event.tags[CHOOSE k \in hits : \A j \in hits : k <= j])

\* the decrypt and parse steps, after the recipient checks
decrypt_tags(event, key) ==
    LET clear == nip04_decrypt(key, event.content)
    IN  IF ~clear.ok
        THEN [ok |-> FALSE, err |-> Err("DecryptionError", "nip04"), decrypt_calls |-> 1]
        ELSE LET parsed == tags_from_json(clear)
             IN  IF ~parsed.ok
                 THEN [ok |-> FALSE, err |-> Err("ParseError", "json"), decrypt_calls |-> 1]
                 ELSE [ok |-> TRUE, tags |-> parsed.tags, decrypt_calls |-> 1]

\* mutant: a message without recipient tag is decrypted all the same
resolve_encrypted_unaddressed(event, key) ==
    LET recipient == find_recipient(event)
    IN  IF recipient = None THEN decrypt_tags(event, key)
        ELSE IF recipient[1] # key
        THEN [ok |-> FALSE, err |-> Err("NotRecipient", ""), decrypt_calls |-> 0]
        ELSE decrypt_tags(event, key)

\* mutant: the recipient is compared only after the decryption
resolve_encrypted_decrypt_first(event, key) ==
    LET recipient == find_recipient(event)
        d == decrypt_tags(event, key)
    IN  IF recipient = None
        THEN [ok |-> FALSE, err |-> Err("MissingPTag", event.id), decrypt_calls |-> 0]
        ELSE IF d.ok /\ recipient[1] # key
        THEN [ok |-> FALSE, err |-> Err("NotRecipient", ""), decrypt_calls |-> 1]
        ELSE d

\* the branch of nostr_tags_resolve for an event marked encrypted
resolve_encrypted(event, key) ==
    LET recipient == find_recipient(event)
    IN  IF recipient = None
        THEN [ok |-> FALSE, err |-> Err("MissingPTag", event.id), decrypt_calls |-> 0]
        ELSE IF recipient[1] # key
        THEN [ok |-> FALSE, err |-> Err("NotRecipient", ""), decrypt_calls |-> 0]
        ELSE decrypt_tags(event, key)

nostr_tags_resolve(event, key) ==
    IF is_encrypted(event)
    THEN resolve_encrypted(event, key)
    ELSE [ok |-> TRUE, tags |-> event.tags, decrypt_calls |-> 0]

(***************************************************************************)
(* events/job_request.rs: parse_event                                      *)
(***************************************************************************)
\* JobRequestInputType::try_from
input_type_try_from(s) ==
    CASE s = "url"   -> [ok |-> TRUE, v |-> "Url"]
      [] s = "event" -> [ok |-> TRUE, v |-> "Event"]
      [] s = "job"   -> [ok |-> TRUE, v |-> "Job"]
      [] s = "text"  -> [ok |-> TRUE, v |-> "Text"]
      [] OTHER       -> [ok |-> FALSE, err |-> Err("InvalidInputType", s)]

\* JobRequestInputMarker::try_from
input_marker_try_from(s) ==
    CASE s = "order"   -> [ok |-> TRUE, v |-> "Order"]
      [] s = "quote"   -> [ok |-> TRUE, v |-> "Quote"]
      [] s = "preview" -> [ok |-> TRUE, v |-> "Preview"]
      [] OTHER         -> [ok |-> FALSE, err |-> Err("InvalidInputMarker", s)]

\* str::parse::<u64>().ok() on the strings of the model
ParseU64(s) ==
    CASE s = "0"    -> Some(0)
      [] s = "21"   -> Some(21)
      [] s = "1000" -> Some(1000)
      [] OTHER      -> None

\* mutant: a bid that does not parse leaves the amount of an earlier bid tag
bid_arm_keep(bid_msat, tag) ==
    LET v == nostr_tag_first_value(tag, "bid")
    IN  IF v = None \/ ParseU64(v[1]) = None THEN bid_msat ELSE ParseU64(v[1])

\* the arm of a "bid" tag: bid_msat = nostr_tag_first_value(tag, k).and_then(|s| s.parse().ok())
bid_arm(bid_msat, tag) ==
    LET v == nostr_tag_first_value(tag, "bid")
    IN  IF v = None THEN None ELSE ParseU64(v[1])

\* mutant: an input with an unknown type or marker is skipped
parse_input_lenient(vals) ==
    IF Len(vals) < 4 THEN Skip
    ELSE LET it == input_type_try_from(vals[2])
             mk == input_marker_try_from(vals[4])
         IN  IF ~it.ok \/ ~mk.ok THEN Skip
             ELSE Push([data |-> vals[1], input_type |-> it.v,
                        relay |-> Some(vals[3]), marker |-> Some(mk.v)])

\* mutant: an "i" tag of three values gives an input without a marker
parse_input_unmarked(vals) ==
    IF Len(vals) < 3 THEN Skip
    ELSE LET it == input_type_try_from(vals[2])
             mk == IF Len(vals) >= 4 THEN input_marker_try_from(vals[4])
                   ELSE [ok |-> TRUE, v |-> "none"]
         IN  IF ~it.ok THEN Fail(it.err)
             ELSE IF ~mk.ok THEN Fail(mk.err)
             ELSE Push([data |-> vals[1], input_type |-> it.v,
                        relay |-> Some(vals[3]),
                        marker |-> IF Len(vals) >= 4 THEN Some(mk.v) ELSE None])

\* mutant: the input type is converted before the length of the tag is matched
parse_input_type_first(vals) ==
    IF Len(vals) >= 2 /\ ~input_type_try_from(vals[2]).ok
    THEN Fail(input_type_try_from(vals[2]).err)
    ELSE IF Len(vals) < 4 THEN Skip
    ELSE LET it == input_type_try_from(vals[2])
             mk == input_marker_try_from(vals[4])
         IN  IF ~mk.ok THEN Fail(mk.err)
             ELSE Push([data |-> vals[1], input_type |-> it.v,
                        relay |-> Some(vals[3]), marker |-> Some(mk.v)])

\* mutant: the marker is converted before the input type
parse_input_marker_first(vals) ==
    IF Len(vals) < 4 THEN Skip
    ELSE LET it == input_type_try_from(vals[2])
             mk == input_marker_try_from(vals[4])
         IN  IF ~mk.ok THEN Fail(mk.err)
             ELSE IF ~it.ok THEN Fail(it.err)
             ELSE Push([data |-> vals[1], input_type |-> it.v,
                        relay |-> Some(vals[3]), marker |-> Some(mk.v)])

\* the arm of an "i" tag: match &vals[..] { [data, input_type, relay, marker, ..] => .. }
parse_input(vals) ==
    IF Len(vals) < 4 THEN Skip
    ELSE LET it == input_type_try_from(vals[2])
             mk == input_marker_try_from(vals[4])
         IN  IF ~it.ok THEN Fail(it.err)
             ELSE IF ~mk.ok THEN Fail(mk.err)
             ELSE Push([data |-> vals[1], input_type |-> it.v,
                        relay |-> Some(vals[3]), marker |-> Some(mk.v)])

\* for tag in &tags { match tag.kind() { .. } }; hashtags and relays, which no handler
\* reads, are not held
RECURSIVE fold_job_tags(_, _, _)
fold_job_tags(tags, k, acc) ==
    IF k > Len(tags) THEN [ok |-> TRUE, req |-> acc]
    ELSE LET tag  == tags[k]
             vals == nostr_tag_values(tag)
         IN  CASE tag[1] = "i" ->
                    LET r == parse_input(vals)
                    IN  IF r.kind = "err" THEN [ok |-> FALSE, err |-> r.reason]
                        ELSE IF r.kind = "continue" THEN fold_job_tags(tags, k + 1, acc)
                        ELSE fold_job_tags(tags, k + 1,
                                           [acc EXCEPT !.inputs = Append(@, r.d)])
               [] tag[1] = "output" ->
                    fold_job_tags(tags, k + 1,
                                  [acc EXCEPT !.output = nostr_tag_first_value(tag, "output")])
               [] tag[1] = "bid" ->
                    fold_job_tags(tags, k + 1,
                                  [acc EXCEPT !.bid_msat = bid_arm(@, tag)])
               [] tag[1] = "param" ->
                    IF Len(vals) >= 2
                    THEN fold_job_tags(tags, k + 1,
                                       [acc EXCEPT !.params = Append(@, <<vals[1], vals[2]>>)])
                    ELSE fold_job_tags(tags, k + 1, acc)
               [] tag[1] = "p" ->
                    LET pk == nostr_tag_at_value(tag, 1)
                    IN  IF pk # None
                        THEN fold_job_tags(tags, k + 1,
                                           [acc EXCEPT !.service_providers = Append(@, pk[1])])
                        ELSE fold_job_tags(tags, k + 1, acc)
               [] OTHER -> fold_job_tags(tags, k + 1, acc)

parse_event(event, key) ==
    LET r == nostr_tags_resolve(event, key)
    IN  IF ~r.ok
        THEN [ok |-> FALSE, err |-> r.err, resolved |-> FALSE,
              decrypt_calls |-> r.decrypt_calls]
        ELSE LET f == fold_job_tags(r.tags, 1,
                                    [id |-> event.id, inputs |-> <<>>, output |-> None,
                                     bid_msat |-> None, service_providers |-> <<>>,
                                     params |-> <<>>, tags |-> r.tags])
             IN  IF f.ok
                 THEN [ok |-> TRUE, req |-> f.req, resolved |-> TRUE,
                       decrypt_calls |-> r.decrypt_calls]
                 ELSE [ok |-> FALSE, err |-> f.err, resolved |-> TRUE,
                       decrypt_calls |-> r.decrypt_calls]

(***************************************************************************)
(* models/event_classified.rs: EventClassified::from_event                 *)
(***************************************************************************)
\* str::parse::<f64>() on the strings of the model, as hundredths
ParseF64(s) ==
    CASE s = "0.01" -> Some(1)
      [] s = "0.5"  -> Some(50)
      [] s = "1"    -> Some(100)
      [] s = "1.1"  -> Some(110)
      [] s = "1.10" -> Some(110)
      [] s = "1.12" -> Some(112)
      [] s = "2.5"  -> Some(250)
      [] s = "2.25" -> Some(225)
      [] s = "7"    -> Some(700)
      [] s = "45"   -> Some(4500)
      [] s = "45.0" -> Some(4500)
      [] s = "2"    -> Some(200)
      [] s = "5"    -> Some(500)
      [] s = "10"   -> Some(1000)
      [] s = "11"   -> Some(1100)
      [] s = "25"   -> Some(2500)
      [] s = "500"  -> Some(50000)
      [] s = "1000" -> Some(100000)
      [] OTHER      -> None

\* str::parse::<u32>() on the strings of the model
ParseU32(s) ==
    CASE s = "0" -> Some(0)
      [] s = "1" -> Some(1)
      [] s = "2" -> Some(2)
      [] s = "5" -> Some(5)
      [] OTHER   -> None

\* a default other than zero
UnwrapOrOne(o) == IF o = None THEN 1 ELSE o[1]

\* .unwrap_or(0.0) and .unwrap_or(0)
UnwrapOr0(o) == IF o = None THEN 0 ELSE o[1]

\* the arms of match key { .. } for one tag
classify_tag(acc, tag) ==
    LET key    == tag[1]
        values == nostr_tag_values(tag)
    IN  CASE key = "quantity" /\ Len(values) >= 3 ->
               LET amount == ParseF64(values[1])
                   unit   == MassUnitFromStr(values[2])
               IN  IF amount # None /\ unit.ok
                   THEN [acc EXCEPT !.quantities =
                            Append(@, [amount |-> amount[1], unit |-> unit.unit,
                                       label |-> values[3]])]
                   ELSE acc
          [] key = "price" /\ Len(values) >= 4 ->
               LET amount == ParseF64(values[1])
                   qa     == ParseF64(values[3])
                   unit   == MassUnitFromStr(to_lowercase(values[4]))
               IN  IF amount # None /\ qa # None /\ unit.ok
                   THEN [acc EXCEPT !.prices =
                            Append(@, [amount |-> amount[1], currency |-> values[2],
                                       quantity_amount |-> qa[1],
                                       quantity_unit |-> unit.unit])]
                   ELSE acc
          [] key = "price-discount-subtotal" /\ Len(values) >= 4 ->
               [acc EXCEPT !.discounts =
                   Append(@, [type |-> "subtotal",
                              threshold |-> UnwrapOr0(ParseF64(values[1])),
                              currency |-> values[2],
                              value |-> UnwrapOr0(ParseF64(values[3])),
                              is_percent |-> (values[4] = "%")])]
          [] key = "price-discount-mass" /\ Len(values) >= 5 ->
               [acc EXCEPT !.discounts =
                   Append(@, [type |-> "mass",
                              discount_unit |-> values[1],
                              threshold |-> UnwrapOr0(ParseF64(values[2])),
                              threshold_unit |-> values[3],
                              discount_per_unit |-> UnwrapOr0(ParseF64(values[4])),
                              currency |-> values[5]])]
          [] key = "price-discount-quantity" /\ Len(values) >= 4 ->
               [acc EXCEPT !.discounts =
                   Append(@, [type |-> "quantity",
                              product_key |-> values[1],
                              min_count |-> UnwrapOr0(ParseU32(values[2])),
                              discount_per_unit |-> UnwrapOr0(ParseF64(values[3])),
                              currency |-> values[4]])]
          [] key = "key" /\ values # <<>> -> [acc EXCEPT !.listing.key = values[1]]
          [] key = "category" /\ values # <<>> -> [acc EXCEPT !.listing.category = values[1]]
          [] key = "process" /\ values # <<>> -> [acc EXCEPT !.listing.process = Some(values[1])]
          [] key = "lot" /\ values # <<>> -> [acc EXCEPT !.listing.lot = Some(values[1])]
          [] key = "profile" /\ values # <<>> -> [acc EXCEPT !.listing.profile = Some(values[1])]
          [] key = "year" /\ values # <<>> -> [acc EXCEPT !.listing.year = Some(values[1])]
          [] OTHER -> acc

\* str::eq_ignore_ascii_case("l")
eq_ignore_ascii_case_l(s) == s \in {"l", "L"}

\* nostr_tag_match_l: Some((kind, value)) for ["l", <f64>, kind, ..]
nostr_tag_match_l(tag) ==
    IF Len(tag) >= 3 /\ eq_ignore_ascii_case_l(tag[1]) /\ ParseF64(tag[2]) # None
    THEN Some([kind |-> tag[3], value |-> ParseF64(tag[2])[1]])
    ELSE None

\* value.to_string().split('.').nth(1).map_or(0, |s| s.len()): the digits Display
\* of the f64 writes after the point (45.0 is written "45", 1.10 is written "1.1")
decimal_precision(c) ==
    IF c % 100 = 0 THEN 0
    ELSE IF c % 10 = 0 THEN 1
    ELSE 2

\* lat.map(precision).unwrap_or(0)
current_precision(held) == IF held = None THEN 0 ELSE decimal_precision(held[1])

\* the replacement test of one axis, not taking a value of the same precision nor one
\* of precision 0 on an empty axis
axis_arm_first_kept(held, value) ==
    IF held = None \/ decimal_precision(value) > current_precision(held)
    THEN Some(value) ELSE held

\* the replacement test of one axis, also taking a value of the same precision
axis_arm_latest(held, value) ==
    IF decimal_precision(value) >= current_precision(held) /\ decimal_precision(value) > 0
    THEN Some(value) ELSE held

\* if precision > current_precision { lat = Some(value) }
axis_arm(held, value) ==
    IF decimal_precision(value) > current_precision(held) THEN Some(value) ELSE held

\* if let Some((kind, value)) = nostr_tag_match_l(tag) { match kind { .. } }
coordinate_arm(acc, tag) ==
    LET m == nostr_tag_match_l(tag)
    IN  IF m = None THEN acc
        ELSE IF m[1].kind = "dd.lat" THEN [acc EXCEPT !.lat = axis_arm(@, m[1].value)]
        ELSE IF m[1].kind = "dd.lon" THEN [acc EXCEPT !.lng = axis_arm(@, m[1].value)]
        ELSE acc

\* nostr_tag_match_location: ["location", address, region, country, ..]
nostr_tag_match_location(tag) ==
    IF Len(tag) >= 4 /\ tag[1] = "location"
    THEN Some(<<tag[2], tag[3], tag[4]>>)
    ELSE None

location_arm(acc, tag) ==
    LET m == nostr_tag_match_location(tag)
    IN  IF m = None THEN acc
        ELSE [acc EXCEPT !.address = Some(m[1][1]), !.region = Some(m[1][2]),
                         !.country = Some(m[1][3])]

\* nostr_tag_match_geohash: the tag standardizes to TagStandard::Geohash
nostr_tag_match_geohash(tag) ==
    IF Len(tag) >= 2 /\ tag[1] = "g" THEN Some(tag[2]) ELSE None

\* str::len on the geohash strings of the model
StrLen(g) ==
    CASE g = "u4"    -> 2
      [] g = "9q"    -> 2
      [] g = "u4pr"  -> 4
      [] g = "u4pru" -> 5
      [] OTHER       -> 0

\* the geohash test, also taking a geohash of the same length
geohash_keep_latest(held, g) ==
    IF held = None \/ StrLen(g) >= StrLen(held[1]) THEN Some(g) ELSE held

\* geohash.as_ref().map_or(true, |current| g.len() > current.len())
geohash_keep(held, g) ==
    IF held = None \/ StrLen(g) > StrLen(held[1]) THEN Some(g) ELSE held

geohash_arm(acc, tag) ==
    LET m == nostr_tag_match_geohash(tag)
    IN  IF m = None THEN acc ELSE [acc EXCEPT !.geohash = geohash_keep(@, m[1])]

\* nostr_tag_match_title, nostr_tag_match_summary: the tag standardizes to Title, Summary
basis_arm(acc, tag) ==
    IF Len(tag) >= 2 /\ tag[1] = "title" THEN [acc EXCEPT !.basis.title = tag[2]]
    ELSE IF Len(tag) >= 2 /\ tag[1] = "summary" THEN [acc EXCEPT !.basis.summary = tag[2]]
    ELSE acc

\* nostr_tags_match: Some((key, values)) for a tag whose kind is TagKind::Custom; the
\* kinds the nostr crate names itself (single letters, title, summary, ..) give None
StandardKinds == {"l", "L", "g", "title", "summary", "p", "e", "i", "t"}

\* the body of for tag in event.tags.iter() { .. }
fold_tag(acc, tag) ==
    LET a1 == IF tag[1] \in StandardKinds THEN acc ELSE classify_tag(acc, tag)
        a2 == coordinate_arm(a1, tag)
        a3 == location_arm(a2, tag)
        a4 == geohash_arm(a3, tag)
    IN  basis_arm(a4, tag)

RECURSIVE classify_tags(_, _, _)
classify_tags(tags, k, acc) ==
    IF k > Len(tags) THEN acc
    ELSE classify_tags(tags, k + 1, fold_tag(acc, tags[k]))

\* the locals of from_event before the loop
FoldStart ==
    [quantities |-> <<>>, prices |-> <<>>, discounts |-> <<>>,
     listing |-> [key |-> "", category |-> "", process |-> None, lot |-> None,
                  profile |-> None, year |-> None],
     basis |-> [title |-> "", summary |-> ""],
     address |-> None, region |-> None, country |-> None,
     lat |-> None, lng |-> None, geohash |-> None]

\* Option::unwrap_or_default of a String
unwrap_or_default(o) == IF o = None THEN "" ELSE o[1]

\* let location = if address.is_some() || region.is_some() || country.is_some() { .. }
location_of(acc) ==
    IF acc.address # None \/ acc.region # None \/ acc.country # None
    THEN Some([address |-> unwrap_or_default(acc.address),
               region |-> unwrap_or_default(acc.region),
               country |-> unwrap_or_default(acc.country)])
    ELSE None

\* let geolocation = if let (Some(lat), Some(lng)) = (lat, lng) { .. }
geolocation_of(acc) ==
    IF acc.lat # None /\ acc.lng # None
    THEN Some([geohash |-> acc.geohash, lat |-> acc.lat[1], lng |-> acc.lng[1]])
    ELSE None

from_event(event) ==
    LET acc == classify_tags(event.tags, 1, FoldStart)
    IN  [quantities |-> acc.quantities, prices |-> acc.prices, discounts |-> acc.discounts,
         listing |-> acc.listing, basis |-> acc.basis,
         location |-> location_of(acc), geolocation |-> geolocation_of(acc)]

\* the fields calculate_order reads
commerce(c) == [quantities |-> c.quantities, prices |-> c.prices, discounts |-> c.discounts]

(***************************************************************************)
(* Events the processor builds and sends.                                  *)
(***************************************************************************)
KIND_JOB_REQUEST == 5300

RECURSIVE input_tags(_, _)
input_tags(tags, k) ==
    IF k > Len(tags) THEN <<>>
    ELSE IF tags[k][1] = "i" THEN <<tags[k]>> \o input_tags(tags, k + 1)
    ELSE input_tags(tags, k + 1)

\* nostr_event_job_result: EventBuilder::job_result(job_request, payload, millisats, bolt11)
\* (kind of the request + 1000; the request's i tags, then e, p, request and amount
\* tags) followed by .tags(tags.unwrap_or_default())
nostr_event_job_result(job_request, payload, tags) ==
    [kind    |-> job_request.kind + 1000,
     content |-> payload,
     tags    |-> input_tags(job_request.tags, 1)
                 \o << <<"e", job_request.id>>, <<"p", job_request.pubkey>>,
                       <<"request", job_request.id>>, <<"amount", "0">> >>
                 \o (IF tags = None THEN <<>> ELSE tags[1])]

\* nostr_event_job_feedback(&event, error, "error", None): kind 7000, a status tag
\* carrying error.to_string() as extra info, and e and p tags of the request
nostr_event_job_feedback(job_request, error, status, tags) ==
    [kind    |-> 7000,
     content |-> "",
     tags    |-> << <<"status", status, ErrorText(error)>>,
                    <<"e", job_request.id>>, <<"p", job_request.pubkey>> >>
                 \o (IF tags = None THEN <<>> ELSE tags[1])]

\* one call of client.send_event_builder, by task t while it works on input i
\* (0: none), and whether the relays took the event
Sent(t, i, event, ok) == [task |-> t, input |-> i, event |-> event, ok |-> ok]

(***************************************************************************)
(* handlers/job_request_order.rs: the JSON of an order input               *)
(***************************************************************************)
DataOrderE1 == "{event:{id:e1},order:{price:10 usd per 1 kg,quantity:2 x 1 kg bag}}"
DataOrderZZ == "{event:{id:zz},order:{price:10 usd per 1 kg,quantity:2 x 1 kg bag}}"
DataOrderJ0 == "{event:{id:j0},order:{price:10 usd per 1 kg,quantity:2 x 1 kg bag}}"
DataNotJson == "one bag please"

DataOrder ==
    [price    |-> [amount |-> 1000, currency |-> "usd", quantity_amount |-> 100,
                   quantity_unit |-> "kg"],
     quantity |-> [amount |-> 100, unit |-> "kg", count |-> 2, mass_g |-> 0,
                   label |-> "bag"]]

\* serde_json::from_str::<JobRequestOrderData>(&job_req_input.data)
order_data_from_str(s) ==
    CASE s = DataOrderE1 -> [ok |-> TRUE, event |-> [id |-> "e1"], order |-> DataOrder]
      [] s = DataOrderZZ -> [ok |-> TRUE, event |-> [id |-> "zz"], order |-> DataOrder]
      [] s = DataOrderJ0 -> [ok |-> TRUE, event |-> [id |-> "j0"], order |-> DataOrder]
      [] OTHER           -> [ok |-> FALSE, err |-> Err("Serde", "expected value")]

(***************************************************************************)
(* The relays: listing events a reference may resolve to.                  *)
(***************************************************************************)
\* Timestamp::now() when the subscription filter is built; events the relays held
\* before have an earlier created_at
Now == 1

ListingEvent(tags) ==
    [id |-> "e1", kind |-> 30402, pubkey |-> "other", created_at |-> Now - 1,
     tags |-> tags, content |-> PlainContent]

TagQuantity == <<"quantity", "1", "kg", "bag">>
TagPrice == <<"price", "10", "usd", "1", "kg">>
TagDiscount == <<"price-discount-subtotal", "5", "usd", "10", "%">>

StorePool ==
    { {},
      {ListingEvent(<<TagQuantity, TagPrice, TagDiscount>>)},
      \* amount that is no number: the price tag is dropped
      {ListingEvent(<<TagQuantity, <<"price", "ten", "usd", "1", "kg">> >>)},
      \* the quantity unit is parsed without lowercasing: the tag is dropped
      {ListingEvent(<<<<"quantity", "1", "KG", "bag">>, TagPrice>>)} }

(***************************************************************************)
(* Job request events (kind 5300) the subscriber may receive.              *)
(***************************************************************************)
JobEvent(tags, content) ==
    [id |-> "j1", kind |-> KIND_JOB_REQUEST, pubkey |-> "other", created_at |-> Now,
     tags |-> tags, content |-> content]

InputTagPool ==
    { <<"i", DataOrderE1, "text", "wss://r", "order">>,
      <<"i", DataOrderZZ, "text", "wss://r", "order">>,
      <<"i", DataNotJson, "text", "wss://r", "order">>,
      <<"i", "q", "text", "wss://r", "quote">>,
      <<"i", "p", "event", "wss://r", "preview">>,
      <<"i", "x", "text", "wss://r", "cancel">>,
      <<"i", "x", "file", "wss://r", "quote">>,
      <<"i", "x", "file", "wss://r", "cancel">>,
      <<"i", "x", "text", "wss://r">>,
      <<"i", "x", "file", "wss://r">> }

InputTagSeqs == BSeq(InputTagPool, MaxInputs)

OtherTags == << <<"output", "text/plain">>, <<"bid", "1000">>, <<"param", "lang", "en">> >>

\* bid and param tags, around the inputs of a message
BidParamTagSeqs ==
    { << <<"bid", "21">>, <<"bid", "lots">> >>,
      << <<"bid", "lots">>, <<"bid", "21">> >>,
      << <<"bid", "1000">>, <<"bid">> >>,
      << <<"param", "solo">>, <<"param", "a", "1">>, <<"bid", "-5">>,
         <<"param", "b", "2", "more">> >> }

RecipientTagSeqs ==
    { <<>>,
      << <<"p">> >>,
      << <<"p", "me">> >>,
      << <<"p", "other">> >>,
      << <<"p", "nokey">> >>,
      << <<"p", "other">>, <<"p", "me">> >>,
      << <<"p", "nokey">>, <<"p", "me">> >> }

Ciphertexts ==
    {[cipher |-> TRUE, for |-> "me", json |-> TRUE, tags |-> its] : its \in InputTagSeqs}
    \cup {[cipher |-> TRUE, for |-> "me", json |-> FALSE, tags |-> <<>>],
          [cipher |-> TRUE, for |-> "other", json |-> TRUE, tags |-> <<>>]}

Messages ==
    {JobEvent(its, PlainContent) : its \in InputTagSeqs}
    \cup {JobEvent(<<<<"p", "me">>>> \o its \o OtherTags, PlainContent) : its \in InputTagSeqs}
    \cup {JobEvent(<<bp[1]>> \o its \o SubSeq(bp, 2, Len(bp)), PlainContent) :
             its \in InputTagSeqs, bp \in BidParamTagSeqs}
    \cup {JobEvent(<<<<"encrypted">>>> \o ps, c) : ps \in RecipientTagSeqs, c \in Ciphertexts}

(***************************************************************************)
(* Spec: the task the subscriber spawns for one received job request.      *)
(* A task is [event, pc, resolved, job_req, idx, dispatched, returned,     *)
(* decrypts, err, data, ref]: idx is the input the loop of handle_event is *)
(* at, dispatched the <<input, marker>> pairs handed to a handler,         *)
(* returned the <<input, "Ok" | "Err">> results of the handlers, decrypts  *)
(* the calls of nip04::decrypt, err the error on its way to handle_error,  *)
(* data the parsed order data and ref the fetched reference event.         *)
(***************************************************************************)
NewTask(event) ==
    [event |-> event, pc |-> "spawned", resolved |-> FALSE, job_req |-> None, idx |-> 0,
     dispatched |-> <<>>, returned |-> <<>>, decrypts |-> 0, err |-> None,
     data |-> None, ref |-> None]

CalcIdle ==
    /\ listing = <<>>
    /\ order = <<>>
    /\ result = NoResult
    /\ listing_event = None
    /\ classified = None

Init ==
    /\ \E m \in Messages : tasks = <<NewTask(m)>>
    /\ sends = <<>>
    /\ store \in StorePool
    /\ intake = IntakeOff
    /\ CalcIdle

Inputs(t) == tasks[t].job_req[1].inputs

\* mutant: the error of a handler ends the loop over the inputs
ReturnedAborting(task, outcome) ==
    [task EXCEPT !.returned = Append(@, <<task.idx, outcome, task.err>>),
                 !.idx = IF outcome = "Err" THEN Len(task.job_req[1].inputs) + 1 ELSE @ + 1,
                 !.pc = "loop", !.err = None, !.data = None, !.ref = None]

\* the handler returned Ok(()) or Err(err): process_job_request is over, the loop goes
\* to the next input
Returned(task, outcome) ==
    [task EXCEPT !.returned = Append(@, <<task.idx, outcome, task.err>>),
                 !.idx = @ + 1, !.pc = "loop", !.err = None, !.data = None, !.ref = None]

\* the handler failed with e: process_job_request is to call handle_error
Failed(task, e) == [task EXCEPT !.pc = "input_error", !.err = Some(e)]

\* handle_event, first line: let job_req = parse_event(&event, &keys)?
ParseEvent(t) ==
    /\ tasks[t].pc = "spawned"
    /\ LET r == parse_event(tasks[t].event, OwnKey)
       IN  tasks' = [tasks EXCEPT ![t] =
              IF r.ok
              THEN [@ EXCEPT !.pc = "loop", !.resolved = TRUE, !.job_req = Some(r.req),
                             !.idx = 1, !.decrypts = r.decrypt_calls]
              ELSE [@ EXCEPT !.pc = "event_error", !.resolved = r.resolved,
                             !.err = Some(r.err), !.decrypts = r.decrypt_calls]]
    /\ UNCHANGED <<sends, store, intake>>
    /\ UNCHANGED calcVars

\* the fetch is started and not awaited: the loop goes on while it is pending
order_begin_detached(task, input) ==
    LET od == order_data_from_str(input.data)
    IN  IF ~od.ok THEN Failed(task, od.err)
        ELSE IF od.event.id \notin EventIds
        THEN Failed(task, Err("ReferenceEventFetch", od.event.id))
        ELSE [task EXCEPT !.idx = @ + 1]

\* handle_job_request_order up to its first await: the JSON of the input, and the
\* EventId::from_hex of nostr_fetch_event_by_id
order_begin(task, input) ==
    LET od == order_data_from_str(input.data)
    IN  IF ~od.ok THEN Failed(task, od.err)
        ELSE IF od.event.id \notin EventIds
        THEN Failed(task, Err("ReferenceEventFetch", od.event.id))
        ELSE [task EXCEPT !.pc = "order_fetch",
                          !.data = Some([event |-> od.event, order |-> od.order])]

\* handle_event, one turn of the loop: the marker, then process_job_request with the
\* handler of the marker.  The quote and preview handlers log and return Ok(()).
Dispatch(t) ==
    /\ tasks[t].pc = "loop"
    /\ tasks[t].idx <= Len(Inputs(t))
    /\ LET task  == tasks[t]
           input == Inputs(t)[task.idx]
       IN  tasks' = [tasks EXCEPT ![t] =
              IF input.marker = None
              THEN [task EXCEPT !.pc = "event_error",
                                !.err = Some(Err("InvalidInputMarker", task.event.id))]
              ELSE LET called == [task EXCEPT !.dispatched =
                                      Append(@, <<task.idx, input.marker[1]>>)]
                   IN  IF input.marker[1] = "Order"
                       THEN order_begin(called, input)
                       ELSE Returned(called, "Ok")]
    /\ UNCHANGED <<sends, store, intake>>
    /\ UNCHANGED calcVars

\* handle_job_request_order after the fetch: from_event, then the two emptiness checks
order_classify(task, ref_event) ==
    LET ref_classified == from_event(ref_event)
    IN  IF ref_classified.prices = <<>>
        THEN Failed(task, Err("ReferenceEventMissingRequested", "price"))
        ELSE IF ref_classified.quantities = <<>>
        THEN Failed(task, Err("ReferenceEventMissingRequested", "quantity"))
        ELSE [task EXCEPT !.pc = "order_send", !.ref = Some(ref_event)]

\* RelayPoolNotification::Event sent to every receiver of the client's notifications:
\* the subscriber's receiver holds it when the task runs on the client of the running
\* iteration
Broadcast(t, event) ==
    IF intake.pc = "listening" /\ t \in intake.members
    THEN [intake EXCEPT !.queue = Append(@, event)]
    ELSE intake

\* nostr_fetch_event_by_id: the subscription fails, or the notification stream ends
\* without the event
OrderFetchFails(t) ==
    /\ tasks[t].pc = "order_fetch"
    /\ LET task == tasks[t]
           id   == task.data[1].event.id
       IN  \/ tasks' = [tasks EXCEPT ![t] = Failed(task, Err("ReferenceEventFetch", id))]
           \/ tasks' = [tasks EXCEPT ![t] = Failed(task, Err("ReferenceEventMissing", id))]
    /\ UNCHANGED <<sends, store, intake>>
    /\ UNCHANGED calcVars

\* nostr_fetch_event_by_id: a relay delivers the event with the id
OrderFetchDelivers(t) ==
    /\ tasks[t].pc = "order_fetch"
    /\ \E e \in store :
          /\ e.id = tasks[t].data[1].event.id
          /\ tasks' = [tasks EXCEPT ![t] = order_classify(tasks[t], e)]
          /\ intake' = Broadcast(t, e)
    /\ UNCHANGED <<sends, store>>
    /\ UNCHANGED calcVars

\* nostr_fetch_event_by_id.  While neither happens the handler waits.
OrderFetch(t) == OrderFetchFails(t) \/ OrderFetchDelivers(t)

\* the handler reports a failure whether or not the relays took the job result
OrderSendDistrusting(t) ==
    /\ tasks[t].pc = "order_send"
    /\ LET task         == tasks[t]
           payload      == "your order was received!"
           event_result == nostr_event_job_result(task.event, payload, None)
       IN  \E ok \in BOOLEAN :
              /\ sends' = Append(sends, Sent(t, task.idx, event_result, ok))
              /\ tasks' = [tasks EXCEPT ![t] =
                     Failed(task, Err("ResponseEventSendFailure", ""))]
    /\ UNCHANGED <<store, intake>>
    /\ UNCHANGED calcVars

\* handle_job_request_order, the end: the job result is built and sent
OrderSend(t) ==
    /\ tasks[t].pc = "order_send"
    /\ LET task         == tasks[t]
           payload      == "your order was received!"
           event_result == nostr_event_job_result(task.event, payload, None)
       IN  \E ok \in BOOLEAN :
              /\ sends' = Append(sends, Sent(t, task.idx, event_result, ok))
              /\ tasks' = [tasks EXCEPT ![t] =
                     IF ok THEN Returned(task, "Ok")
                     ELSE Failed(task, Err("ResponseEventSendFailure", ""))]
    /\ UNCHANGED <<store, intake>>
    /\ UNCHANGED calcVars

\* handle_error: the feedback event is built and sent; the caller drops the result
handle_error(t, ok) ==
    Sent(t, tasks[t].idx,
         nostr_event_job_feedback(tasks[t].event, tasks[t].err[1], "error", None), ok)

\* mutant: the feedback is sent again until the relays take it
InputErrorRetrying(t) ==
    /\ tasks[t].pc = "input_error"
    /\ \E ok \in BOOLEAN :
          /\ sends' = Append(sends, handle_error(t, ok))
          /\ tasks' = [tasks EXCEPT ![t] = IF ok THEN Returned(tasks[t], "Err") ELSE @]
    /\ UNCHANGED <<store, intake>>
    /\ UNCHANGED calcVars

\* process_job_request, the Err branch
InputError(t) ==
    /\ tasks[t].pc = "input_error"
    /\ \E ok \in BOOLEAN : sends' = Append(sends, handle_error(t, ok))
    /\ tasks' = [tasks EXCEPT ![t] = Returned(tasks[t], "Err")]
    /\ UNCHANGED <<store, intake>>
    /\ UNCHANGED calcVars

\* mutant: the error of handle_event is dropped
EventErrorSilent(t) ==
    /\ tasks[t].pc = "event_error"
    /\ tasks' = [tasks EXCEPT ![t].pc = "done"]
    /\ UNCHANGED <<sends, store, intake>>
    /\ UNCHANGED calcVars

\* subscriber, the spawned task: handle_event returned Err.  The error stays in the
\* task record once the task is over.
EventError(t) ==
    /\ tasks[t].pc = "event_error"
    /\ \E ok \in BOOLEAN : sends' = Append(sends, handle_error(t, ok))
    /\ tasks' = [tasks EXCEPT ![t].pc = "done"]
    /\ UNCHANGED <<store, intake>>
    /\ UNCHANGED calcVars

\* handle_event: the loop is over, Ok(())
LoopEnd(t) ==
    /\ tasks[t].pc = "loop"
    /\ tasks[t].idx > Len(Inputs(t))
    /\ tasks' = [tasks EXCEPT ![t].pc = "done"]
    /\ UNCHANGED <<sends, store, intake>>
    /\ UNCHANGED calcVars

Tasks == 1..Len(tasks)

Next ==
    \/ \E t \in Tasks : ParseEvent(t)
    \/ \E t \in Tasks : Dispatch(t)
    \/ \E t \in Tasks : OrderFetch(t)
    \/ \E t \in Tasks : OrderSend(t)
    \/ \E t \in Tasks : InputError(t)
    \/ \E t \in Tasks : EventError(t)
    \/ \E t \in Tasks : LoopEnd(t)

Spec == Init /\ [][Next]_vars

(***************************************************************************)
(* Properties of Spec.                                                     *)
(***************************************************************************)
Finished(t) == tasks[t].pc = "done"

HasKind(tag, kind) == tag[1] = kind

\* the sends of task t for input i with the given event kind
SendsOf(t, i, kind) ==
    {k \in 1..Len(sends) :
        sends[k].task = t /\ sends[k].input = i /\ sends[k].event.kind = kind}

\* the JSON text of an OrderClassifiedResult
OrderResultJson(r) ==
    "{quantity:" \o FmtF64(r.quantity.amount) \o " " \o r.quantity.unit \o " " \o r.quantity.label
    \o ",price:" \o FmtF64(r.price.amount) \o " " \o r.price.currency
    \o ",subtotal:" \o FmtF64(r.subtotal.price_amount)
    \o ",total:" \o FmtF64(r.total.price_amount) \o "}"

\* the order inputs of task t whose handler returned Ok
OrdersCompleted(t) ==
    {i \in 1..Len(tasks[t].returned) :
        /\ tasks[t].returned[i][2] = "Ok"
        /\ Inputs(t)[tasks[t].returned[i][1]].marker = Some("Order")}

\* C1: whenever the order handler returns Ok for an order input, exactly one job
\* result was published for the job request, its payload is the serialized
\* OrderClassifiedResult of the referenced listing and the requested order, and one of
\* its tags references the listing named by the order's event id.
C1_OrderResultPublished ==
    \A t \in Tasks : \A i \in OrdersCompleted(t) :
        LET input == tasks[t].returned[i][1]
            od    == order_data_from_str(Inputs(t)[input].data)
            pub   == SendsOf(t, input, KIND_JOB_REQUEST + 1000)
        IN  /\ Cardinality(pub) = 1
            /\ \A k \in pub :
                  /\ sends[k].ok
                  /\ \E e \in store :
                        /\ e.id = od.event.id
                        /\ LET r == calculate_order(from_event(e), od.order)
                           IN  r.ok /\ sends[k].event.content = OrderResultJson(r)
                  /\ \E n \in 1..Len(sends[k].event.tags) :
                        /\ sends[k].event.tags[n][1] \in {"e", "a"}
                        /\ sends[k].event.tags[n][2] = od.event.id

\* the happy order against the happy listing went through the order handler
C1_Witness ==
    \E t \in Tasks :
        /\ Finished(t)
        /\ OrdersCompleted(t) # {}
        /\ \E e \in store : commerce(from_event(e)) = HappyListing

NoPTag(event) == \A k \in 1..Len(event.tags) : ~HasKind(event.tags[k], "p")

MarkedEncrypted(event) == \E k \in 1..Len(event.tags) : HasKind(event.tags[k], "encrypted")

Parsed(t) == tasks[t].pc # "spawned"

\* C8: a message marked encrypted that carries no p tag fails in nostr_tags_resolve
\* with MissingPTag, and nip04::decrypt is never called for it.
C8_MissingRecipient ==
    \A t \in Tasks :
        (Parsed(t) /\ MarkedEncrypted(tasks[t].event) /\ NoPTag(tasks[t].event))
        => /\ ~tasks[t].resolved
           /\ tasks[t].err # None
           /\ tasks[t].err[1].variant = "MissingPTag"
           /\ tasks[t].decrypts = 0

\* such a message, with a content the processor's key could decrypt, was handled
C8_Witness ==
    \E t \in Tasks :
        /\ Finished(t)
        /\ MarkedEncrypted(tasks[t].event) /\ NoPTag(tasks[t].event)
        /\ tasks[t].event.content.cipher
        /\ tasks[t].event.content.for = OwnKey

\* the identity of the recipient tag: the key of the first p tag that holds a key
RECURSIVE RecipientFrom(_, _)
RecipientFrom(tags, k) ==
    IF k > Len(tags) THEN "none"
    ELSE IF HasKind(tags[k], "p") /\ Len(tags[k]) >= 2 /\ tags[k][2] \in PublicKeys
    THEN tags[k][2]
    ELSE RecipientFrom(tags, k + 1)

AddressedElsewhere(event) ==
    /\ MarkedEncrypted(event)
    /\ RecipientFrom(event.tags, 1) \notin {"none", OwnKey}

\* C9: a message marked encrypted whose recipient is not the processor's public key
\* fails in nostr_tags_resolve with NotRecipient: nip04::decrypt is not called, no tags
\* are returned (no job request is parsed) and no handler is dispatched; and whenever
\* nip04::decrypt was called for an encrypted message, its recipient is the processor.
C9_RecipientCheckedFirst ==
    \A t \in Tasks :
        /\ (Parsed(t) /\ AddressedElsewhere(tasks[t].event))
           => /\ ~tasks[t].resolved
              /\ tasks[t].err # None
              /\ tasks[t].err[1].variant = "NotRecipient"
              /\ tasks[t].decrypts = 0
              /\ tasks[t].job_req = None
              /\ tasks[t].dispatched = <<>>
        /\ tasks[t].decrypts > 0 => RecipientFrom(tasks[t].event.tags, 1) = OwnKey

\* a message addressed to another key, with a content the processor's key could
\* decrypt, was handled
C9_Witness ==
    \E t \in Tasks :
        /\ Finished(t)
        /\ AddressedElsewhere(tasks[t].event)
        /\ tasks[t].event.content.cipher
        /\ tasks[t].event.content.for = OwnKey
        /\ tasks[t].event.content.tags # <<>>

\* the tags the inputs of a resolved message come from
MessageTags(event) == IF MarkedEncrypted(event) THEN event.content.tags ELSE event.tags

SupportedMarkers == {"order", "quote", "preview"}
InputTypes == {"url", "event", "job", "text"}

\* an i tag with a marker string
IsInput(tag) == HasKind(tag, "i") /\ Len(tag) >= 5

UnsupportedAt(tags) == {n \in 1..Len(tags) : IsInput(tags[n]) /\ tags[n][5] \notin SupportedMarkers}

SupportedAt(tags) ==
    {n \in 1..Len(tags) :
        IsInput(tags[n]) /\ tags[n][5] \in SupportedMarkers /\ tags[n][3] \in InputTypes}

MarkerName(s) == CASE s = "order" -> "Order" [] s = "quote" -> "Quote" [] s = "preview" -> "Preview"

\* C10 as claimed: in a finished message with an input of unsupported marker, every
\* sibling input with a supported marker was dispatched to its handler.
C10_Claimed ==
    \A t \in Tasks :
        LET tags == MessageTags(tasks[t].event)
        IN  (Finished(t) /\ tasks[t].resolved /\ UnsupportedAt(tags) # {})
            => \A n \in SupportedAt(tags) :
                  \E d \in 1..Len(tasks[t].dispatched) :
                      tasks[t].dispatched[d][2] = MarkerName(tags[n][5])

\* the first i tag of the message that parse_event rejects
FirstRejected(tags) ==
    LET bad == {n \in 1..Len(tags) :
                   IsInput(tags[n])
                   /\ (tags[n][3] \notin InputTypes \/ tags[n][5] \notin SupportedMarkers)}
    IN  CHOOSE n \in bad : \A m \in bad : n <= m

RejectionOf(tag) ==
    IF tag[3] \notin InputTypes THEN Err("InvalidInputType", tag[3])
    ELSE Err("InvalidInputMarker", tag[5])

\* C10: a message with an input of unsupported marker fails as a whole in parse_event,
\* with the error of its first rejected i tag: no job request is built, no input is
\* dispatched, not even a sibling with a supported marker, and the only message sent is
\* one error feedback with the text of that error.
C10_WholeMessageFails ==
    \A t \in Tasks :
        LET tags == MessageTags(tasks[t].event)
        IN  (Parsed(t) /\ tasks[t].resolved /\ UnsupportedAt(tags) # {})
            => /\ tasks[t].job_req = None
               /\ tasks[t].dispatched = <<>>
               /\ tasks[t].err = Some(RejectionOf(tags[FirstRejected(tags)]))
               /\ \A k \in 1..Len(sends) :
                     sends[k].task = t => sends[k].event.kind = 7000
               /\ Finished(t)
                  => /\ Cardinality(SendsOf(t, 0, 7000)) = 1
                     /\ \A k \in SendsOf(t, 0, 7000) :
                           sends[k].event.tags[1] =
                              <<"status", "error",
                                ErrorText(RejectionOf(tags[FirstRejected(tags)]))>>

\* a message whose unsupported input comes after a sibling with a supported marker
C10_Witness ==
    \E t \in Tasks :
        LET tags == MessageTags(tasks[t].event)
        IN  /\ Finished(t) /\ tasks[t].resolved
            /\ \E n \in SupportedAt(tags) : \E m \in UnsupportedAt(tags) : n < m

\* the i tags of a message that carry a marker string, in tag order
RECURSIVE InputTagsOf(_, _)
InputTagsOf(tags, k) ==
    IF k > Len(tags) THEN <<>>
    ELSE (IF IsInput(tags[k]) THEN <<tags[k]>> ELSE <<>>) \o InputTagsOf(tags, k + 1)

\* the feedback events sent by task t for input i (0: for the message) that carry
\* status "error", the text of error e and an e tag of the job request
ErrorFeedbacks(t, i, e) ==
    {k \in SendsOf(t, i, 7000) :
        /\ sends[k].event.tags[1] = <<"status", "error", ErrorText(e)>>
        /\ \E n \in 1..Len(sends[k].event.tags) :
              sends[k].event.tags[n] = <<"e", tasks[t].event.id>>}

ErrReturns(t) == {r \in 1..Len(tasks[t].returned) : tasks[t].returned[r][2] = "Err"}

\* C11: in a parsed job message the inputs are dispatched one by one in tag order, each
\* once and to the handler its marker names; for every handler that returned an error
\* one feedback with status "error" and the error's text was sent, and the inputs after
\* it were dispatched all the same: a finished message has every input dispatched.
C11_DispatchPerInput ==
    \A t \in Tasks :
        tasks[t].job_req # None
        => LET its == InputTagsOf(MessageTags(tasks[t].event), 1)
               d   == tasks[t].dispatched
           IN  /\ Len(d) <= Len(its)
               /\ \A k \in 1..Len(d) : d[k] = <<k, MarkerName(its[k][5])>>
               /\ Finished(t) => Len(d) = Len(its)
               /\ \A r \in ErrReturns(t) :
                     LET ret == tasks[t].returned[r]
                     IN  /\ Cardinality(ErrorFeedbacks(t, ret[1], ret[3][1])) = 1
                         /\ ret[1] < Len(its) => tasks[t].idx > ret[1]

\* a finished message whose first input failed in its handler and whose second input
\* was dispatched
C11_Witness ==
    \E t \in Tasks :
        /\ Finished(t)
        /\ tasks[t].job_req # None
        /\ \E r \in ErrReturns(t) : tasks[t].returned[r][1] = 1
        /\ Len(tasks[t].dispatched) = 2

\* the failures of task t: the error handle_event returned, and the errors its
\* handlers returned
Failures(t) ==
    (IF tasks[t].job_req = None THEN {<<0, tasks[t].err[1]>>} ELSE {})
    \cup {<<tasks[t].returned[r][1], tasks[t].returned[r][3][1]>> : r \in ErrReturns(t)}

\* C12: a task ends without a job request only with an error; and once a task is over,
\* for each of its failures (tag resolution, parsing, a handler) a feedback with status
\* "error", the e tag of the job request and the text of the error was handed to
\* send_event_builder, so that a task that sent no feedback had no failure.
C12_FeedbackOnEveryFailure ==
    \A t \in Tasks :
        /\ (Parsed(t) /\ tasks[t].job_req = None) => tasks[t].err # None
        /\ tasks[t].pc \in {"input_error", "event_error"} => tasks[t].err # None
        /\ Finished(t)
           => /\ \A f \in Failures(t) : ErrorFeedbacks(t, f[1], f[2]) # {}
              /\ Cardinality({k \in 1..Len(sends) :
                                 sends[k].task = t /\ sends[k].event.kind = 7000})
                 = Cardinality(Failures(t))

\* a message that could not be decrypted is over
C12_Witness ==
    \E t \in Tasks :
        /\ Finished(t)
        /\ tasks[t].err # None
        /\ tasks[t].err[1].variant = "DecryptionError"

\* the feedback sends that failed
FailedFeedbacks == {k \in 1..Len(sends) : sends[k].event.kind = 7000 /\ ~sends[k].ok}

\* C17: once the send of a feedback has failed, it stays the only send of the task for
\* that input (or for the message): nothing is sent again or about it; the task has
\* moved on, to the next input or to its end; and a finished task whose message was
\* parsed has dispatched every input.
C17_FeedbackFailureSwallowed ==
    \A k \in FailedFeedbacks :
        LET t == sends[k].task
            i == sends[k].input
        IN  /\ {n \in 1..Len(sends) :
                   sends[n].task = t /\ sends[n].input = i /\ n > k} = {}
            /\ Cardinality(SendsOf(t, i, 7000)) = 1
            /\ IF i = 0 THEN Finished(t)
               ELSE tasks[t].pc \in {"loop", "done"} \/ tasks[t].idx > i
            /\ i > 0 => tasks[t].idx > i
            /\ (Finished(t) /\ tasks[t].job_req # None)
               => Len(tasks[t].dispatched) = Len(Inputs(t))

\* the feedback for the first of two inputs failed, and the second was dispatched
C17_Witness ==
    \E k \in FailedFeedbacks :
        /\ sends[k].input = 1
        /\ Finished(sends[k].task)
        /\ Len(tasks[sends[k].task].dispatched) = 2

TypeName(s) ==
    CASE s = "url" -> "Url" [] s = "event" -> "Event" [] s = "job" -> "Job" [] s = "text" -> "Text"

\* the JobRequestInput of an i tag
InputOf(tag) ==
    [data |-> tag[2], input_type |-> TypeName(tag[3]), relay |-> Some(tag[4]),
     marker |-> Some(MarkerName(tag[5]))]

\* the pairs of the param tags with two values or more, in tag order
RECURSIVE ParamsOf(_, _)
ParamsOf(tags, k) ==
    IF k > Len(tags) THEN <<>>
    ELSE (IF HasKind(tags[k], "param") /\ Len(tags[k]) >= 3
          THEN << <<tags[k][2], tags[k][3]>> >> ELSE <<>>) \o ParamsOf(tags, k + 1)

\* the i tags that parse_event rejects
Rejected(tags) ==
    {n \in 1..Len(tags) :
        IsInput(tags[n])
        /\ (tags[n][3] \notin InputTypes \/ tags[n][5] \notin SupportedMarkers)}

\* C18: a parsed JobRequest has one input per i tag with four values or more, in the
\* order of the resolved tags, and one param pair per param tag with two values or
\* more, in tag order; shorter i tags add nothing, and a message whose only
\* out-of-enumeration strings are in such shorter i tags is parsed.
C18_InputsFollowTags ==
    \A t \in Tasks :
        LET tags == MessageTags(tasks[t].event)
            its  == InputTagsOf(tags, 1)
        IN  /\ tasks[t].job_req # None
               => /\ Inputs(t) = [k \in 1..Len(its) |-> InputOf(its[k])]
                  /\ tasks[t].job_req[1].params = ParamsOf(tags, 1)
            /\ (Parsed(t) /\ tasks[t].resolved /\ Rejected(tags) = {})
               => tasks[t].job_req # None

\* a parsed message with an input, a param tag with one value and an i tag with three
\* values whose type is outside the enumeration
C18_Witness ==
    \E t \in Tasks :
        LET tags == MessageTags(tasks[t].event)
        IN  /\ tasks[t].job_req # None
            /\ Len(Inputs(t)) = 1
            /\ \E n \in 1..Len(tags) :
                  HasKind(tags[n], "i") /\ Len(tags[n]) = 4 /\ tags[n][3] \notin InputTypes
            /\ \E n \in 1..Len(tags) : HasKind(tags[n], "param") /\ Len(tags[n]) = 2
            /\ Len(tasks[t].job_req[1].params) = 2

\* C19: when an i tag with four values or more has an input type outside {url, event,
\* job, text} or a marker outside {order, quote, preview}, parse_event yields no
\* JobRequest and its error is that of the first such tag, with the raw string:
\* InvalidInputType when the type is invalid, else InvalidInputMarker.
C19_FirstOffendingTag ==
    \A t \in Tasks :
        LET tags == MessageTags(tasks[t].event)
        IN  (Parsed(t) /\ tasks[t].resolved /\ Rejected(tags) # {})
            => LET tag == tags[CHOOSE n \in Rejected(tags) : \A m \in Rejected(tags) : n <= m]
               IN  /\ tasks[t].job_req = None
                   /\ tasks[t].err =
                         Some(IF tag[3] \notin InputTypes
                              THEN [variant |-> "InvalidInputType", arg |-> tag[3]]
                              ELSE [variant |-> "InvalidInputMarker", arg |-> tag[5]])

\* a message whose first rejected tag has both strings outside the enumerations, and
\* a later tag with only the marker outside
C19_Witness ==
    \E t \in Tasks :
        LET tags == MessageTags(tasks[t].event)
        IN  /\ Parsed(t) /\ tasks[t].resolved
            /\ \E n, m \in Rejected(tags) :
                  /\ n < m
                  /\ \A j \in Rejected(tags) : n <= j
                  /\ tags[n][3] \notin InputTypes /\ tags[n][5] \notin SupportedMarkers
                  /\ tags[m][3] \in InputTypes

\* the value of a string of digits
UnsignedValue(s) ==
    CASE s = "0" -> <<0>> [] s = "21" -> <<21>> [] s = "1000" -> <<1000>> [] OTHER -> <<>>

BidTags(tags) == {n \in 1..Len(tags) : HasKind(tags[n], "bid")}

\* the amount of the last bid tag, or none
LastBid(tags) ==
    IF BidTags(tags) = {} THEN <<>>
    ELSE LET tag == tags[CHOOSE n \in BidTags(tags) : \A m \in BidTags(tags) : m <= n]
         IN  IF Len(tag) >= 2 THEN UnsignedValue(tag[2]) ELSE <<>>

\* C20: bid tags never make parse_event fail (a message fails only on a rejected i
\* tag), and bid_msat of a parsed JobRequest is the value of the last bid tag when that
\* value is an unsigned integer, and unset otherwise.
C20_LastBidDecides ==
    \A t \in Tasks :
        LET tags == MessageTags(tasks[t].event)
        IN  /\ tasks[t].job_req # None => tasks[t].job_req[1].bid_msat = LastBid(tags)
            /\ (Parsed(t) /\ tasks[t].resolved /\ BidTags(tags) # {} /\ Rejected(tags) = {})
               => tasks[t].job_req # None

\* a parsed message whose valid bid is followed by a bid that is no number
C20_Witness ==
    \E t \in Tasks :
        LET tags == MessageTags(tasks[t].event)
        IN  /\ tasks[t].job_req # None
            /\ tasks[t].job_req[1].bid_msat = None
            /\ \E n, m \in BidTags(tags) :
                  n < m /\ Len(tags[n]) >= 2 /\ UnsignedValue(tags[n][2]) # <<>>

\* the "i" tags of the message of task t that lack a marker value
Unmarked(t) ==
    {k \in 1..Len(MessageTags(tasks[t].event)) :
        LET tag == MessageTags(tasks[t].event)[k]
        IN  tag[1] = "i" /\ Len(tag) < 5}

\* C26: every input of a parsed job request has its marker and its relay, the inputs
\* being as many as the "i" tags that have a marker value; so no task fails after
\* parsing for a missing marker: an error that ends a task is an error of parse_event.
C26_MarkerAlwaysPresent ==
    \A t \in Tasks :
        /\ tasks[t].job_req # None
           => /\ \A k \in 1..Len(Inputs(t)) :
                    Inputs(t)[k].marker # None /\ Inputs(t)[k].relay # None
              /\ Len(Inputs(t)) = Len(InputTagsOf(MessageTags(tasks[t].event), 1))
              /\ tasks[t].pc # "event_error"
        /\ (tasks[t].pc = "event_error" \/ (Finished(t) /\ tasks[t].err # None))
           => /\ tasks[t].job_req = None
              /\ tasks[t].dispatched = <<>>

\* a message with an "i" tag of three values and an order input is over: one input,
\* dispatched, no error of the task
C26_Witness ==
    \E t \in Tasks :
        /\ Finished(t)
        /\ tasks[t].job_req # None
        /\ Cardinality(Unmarked(t)) = 1
        /\ Len(Inputs(t)) = 1
        /\ Len(tasks[t].dispatched) = 1
        /\ tasks[t].err = None

\* the inputs of task t dispatched so far
DispatchedInputs(t) == 1..Len(tasks[t].dispatched)

ReturnedAs(t, k, outcome) ==
    k <= Len(tasks[t].returned) /\ tasks[t].returned[k][2] = outcome

\* C25: for every dispatched input, a feedback was handed to the client iff its handler
\* returned an error, and then once; a job result the relays took excludes any feedback
\* for the input; nothing at all is sent for a quote or preview input.
C25_ResultOrFeedback ==
    \A t \in Tasks :
        tasks[t].job_req # None =>
            \A k \in DispatchedInputs(t) :
                /\ SendsOf(t, k, 7000) # {} <=> ReturnedAs(t, k, "Err")
                /\ Cardinality(SendsOf(t, k, 7000)) <= 1
                /\ (\E n \in SendsOf(t, k, 6300) : sends[n].ok) => SendsOf(t, k, 7000) = {}
                /\ (ReturnedAs(t, k, "Ok") /\ tasks[t].dispatched[k][2] = "Order")
                   => \E n \in SendsOf(t, k, 6300) : sends[n].ok
                /\ tasks[t].dispatched[k][2] \in {"Quote", "Preview"}
                   => /\ {n \in 1..Len(sends) : sends[n].task = t /\ sends[n].input = k} = {}
                      /\ k <= Len(tasks[t].returned) => ReturnedAs(t, k, "Ok")

\* a finished message: the job result of its first input was taken and no feedback
\* sent for it, its second input failed and has its feedback
C25_Witness ==
    \E t \in Tasks :
        /\ Finished(t)
        /\ Len(tasks[t].returned) = 2
        /\ ReturnedAs(t, 1, "Ok") /\ tasks[t].dispatched[1][2] = "Order"
        /\ SendsOf(t, 1, 7000) = {}
        /\ ReturnedAs(t, 2, "Err")
        /\ SendsOf(t, 2, 7000) # {}

\* a quote and a preview input returned and nothing was sent
C25_WitnessQuiet ==
    \E t \in Tasks :
        /\ Finished(t)
        /\ Len(tasks[t].returned) = 2
        /\ tasks[t].dispatched[1][2] = "Quote"
        /\ tasks[t].dispatched[2][2] = "Preview"
        /\ sends = <<>>

(***************************************************************************)
(* SpecFair: a task under fair scheduling.  The runtime keeps polling a    *)
(* task that can take a step, a call of send_event_builder returns, and a  *)
(* relay that holds the event of a subscription by id delivers it.  That   *)
(* a subscription fails or that the notification stream closes is not      *)
(* promised to happen.                                                     *)
(***************************************************************************)
Fairness ==
    /\ WF_vars(\E t \in Tasks : ParseEvent(t))
    /\ WF_vars(\E t \in Tasks : Dispatch(t))
    /\ WF_vars(\E t \in Tasks : OrderFetchDelivers(t))
    /\ WF_vars(\E t \in Tasks : OrderSend(t))
    /\ WF_vars(\E t \in Tasks : InputError(t))
    /\ WF_vars(\E t \in Tasks : EventError(t))
    /\ WF_vars(\E t \in Tasks : LoopEnd(t))

\* plain messages with inputs of every handler and one that parse_event rejects
FairInputTagPool ==
    { <<"i", DataOrderE1, "text", "wss://r", "order">>,
      <<"i", DataNotJson, "text", "wss://r", "order">>,
      <<"i", "q", "text", "wss://r", "quote">>,
      <<"i", "x", "text", "wss://r", "cancel">> }

InitFair ==
    /\ \E its \in BSeq(FairInputTagPool, MaxInputs) :
          tasks = <<NewTask(JobEvent(its, PlainContent))>>
    /\ sends = <<>>
    /\ store \in StorePool
    /\ intake = IntakeOff
    /\ CalcIdle

SpecFair == InitFair /\ [][Next]_vars /\ Fairness

\* C14: under fair scheduling every spawned task is eventually over, with each of its
\* inputs returned from its handler (Ok or Err), whether or not a relay ever delivers
\* the listing an order input references.
C14_TasksFinish ==
    <>(\A t \in Tasks :
          /\ Finished(t)
          /\ tasks[t].job_req # None => Len(tasks[t].returned) = Len(Inputs(t)))

(***************************************************************************)
(* SpecIntake: main's loop around subscriber, the job requests that clients *)
(* publish while it listens, and the tasks it spawns, all running          *)
(* concurrently.  intake is [pc, last, queue, members, arrived, received]: *)
(* pc is "main" (the loop is about to call subscriber), "listening" (the   *)
(* iteration awaits notifications.recv()) or "ended" (subscriber has       *)
(* returned last, "Ok" or "Err"); queue holds the notifications the        *)
(* receiver has not taken yet; members are the tasks that run on the       *)
(* Client of the running iteration; arrived are the job requests clients   *)
(* have published so far; received are the events taken by recv().         *)
(***************************************************************************)
\* a job request published before the subscription started, held by the relays
OldJobEvent ==
    [id |-> "j0", kind |-> KIND_JOB_REQUEST, pubkey |-> "other", created_at |-> Now - 1,
     tags |-> << <<"i", "x", "text", "wss://r", "cancel">> >>, content |-> PlainContent]

IntakeStores ==
    { {},
      {ListingEvent(<<TagQuantity, TagPrice, TagDiscount>>), OldJobEvent} }

\* the job requests clients publish while a subscription is open, each once
LiveMessages ==
    { JobEvent(<< <<"i", DataOrderE1, "text", "wss://r", "order">> >>, PlainContent),
      [JobEvent(<< <<"i", DataOrderJ0, "text", "wss://r", "order">> >>, PlainContent)
          EXCEPT !.id = "j2"] }

InitIntake ==
    /\ tasks = <<>>
    /\ sends = <<>>
    /\ store \in IntakeStores
    /\ intake = [IntakeOff EXCEPT !.pc = "main"]
    /\ CalcIdle

\* subscriber up to client.notifications(): Client::new, add_relay(..)?, connect,
\* subscribe(..)?
subscriber_start(in, outcome) ==
    IF outcome = "subscribed"
    THEN [in EXCEPT !.pc = "listening", !.queue = <<>>, !.members = {}]
    ELSE [in EXCEPT !.pc = "ended", !.last = "Err", !.queue = <<>>, !.members = {}]

IntakeSubscribe ==
    /\ intake.pc = "main"
    /\ \E outcome \in {"add_relay_error", "subscribe_error", "subscribed"} :
          intake' = subscriber_start(intake, outcome)
    /\ UNCHANGED <<tasks, sends, store>>
    /\ UNCHANGED calcVars

\* a relay sends an event that matches the filter of the subscription (kind 5300,
\* since the start): a job request a client has just published
Arrive ==
    /\ intake.pc = "listening"
    /\ \E m \in LiveMessages \ intake.arrived :
          intake' = [intake EXCEPT !.queue = Append(@, m), !.arrived = @ \cup {m}]
    /\ UNCHANGED <<tasks, sends, store>>
    /\ UNCHANGED calcVars

\* mutant: the task of a message is awaited, so a message received while a task runs
\* gets none
spawn_awaiting(ts, event) ==
    IF event.kind = KIND_JOB_REQUEST /\ \A t \in 1..Len(ts) : ts[t].pc = "done"
    THEN Append(ts, NewTask(event))
    ELSE ts

\* if event.kind == Kind::Custom(KIND_JOB_REQUEST) { tokio::spawn(..) }
spawn(ts, event) ==
    IF event.kind = KIND_JOB_REQUEST THEN Append(ts, NewTask(event)) ELSE ts

\* subscriber: notifications.recv() returns a RelayPoolNotification::Event
IntakeRecv ==
    /\ intake.pc = "listening"
    /\ intake.queue # <<>>
    /\ LET event == Head(intake.queue)
       IN  /\ tasks' = spawn(tasks, event)
           /\ intake' = [intake EXCEPT
                            !.queue = Tail(@),
                            !.received = Append(@, event),
                            !.members = IF event.kind = KIND_JOB_REQUEST
                                        THEN @ \cup {Len(tasks) + 1} ELSE @]
    /\ UNCHANGED <<sends, store>>
    /\ UNCHANGED calcVars

\* subscriber: notifications.recv() returns Err, client.disconnect(), Ok(())
IntakeClosed ==
    /\ intake.pc = "listening"
    /\ intake' = [intake EXCEPT !.pc = "ended", !.last = "Ok", !.queue = <<>>,
                                !.members = {}]
    /\ UNCHANGED <<tasks, sends, store>>
    /\ UNCHANGED calcVars

\* mutant: the error of subscriber leaves the loop
main_loop_propagating(last) == IF last = "Err" THEN "stopped" ELSE "main"

\* main: loop { if let Err(e) = subscriber(..).await { error!(..) } }
main_loop(last) == "main"

MainLoop ==
    /\ intake.pc = "ended"
    /\ intake' = [intake EXCEPT !.pc = main_loop(intake.last)]
    /\ UNCHANGED <<tasks, sends, store>>
    /\ UNCHANGED calcVars

NextIntake ==
    \/ IntakeSubscribe
    \/ Arrive
    \/ IntakeRecv
    \/ IntakeClosed
    \/ MainLoop
    \/ \E t \in Tasks : ParseEvent(t)
    \/ \E t \in Tasks : Dispatch(t)
    \/ \E t \in Tasks : OrderFetch(t)
    \/ \E t \in Tasks : OrderSend(t)
    \/ \E t \in Tasks : InputError(t)
    \/ \E t \in Tasks : EventError(t)
    \/ \E t \in Tasks : LoopEnd(t)

SpecIntake == InitIntake /\ [][NextIntake]_vars

\* main's loop under fair scheduling: the runtime keeps polling the loop
SpecIntakeFair == InitIntake /\ [][NextIntake]_vars /\ WF_vars(MainLoop)

\* the job requests among the events received
RECURSIVE JobRequestsIn(_, _)
JobRequestsIn(events, k) ==
    IF k > Len(events) THEN <<>>
    ELSE (IF events[k].kind = 5300 THEN <<events[k]>> ELSE <<>>)
         \o JobRequestsIn(events, k + 1)

\* C13: the tasks are, one for one and in order, the job requests the intake loop has
\* received; and while the loop listens with a notification waiting, receiving it is
\* possible whatever the tasks are doing.
C13_IntakeNeverWaits ==
    /\ [k \in 1..Len(tasks) |-> tasks[k].event] = JobRequestsIn(intake.received, 1)
    /\ (intake.pc = "listening" /\ intake.queue # <<>>) => ENABLED IntakeRecv

\* a second task was spawned while the first waits for its listing
C13_Witness ==
    /\ Len(tasks) >= 2
    /\ tasks[1].pc = "order_fetch"
    /\ tasks[2].pc = "spawned"

\* a second task was spawned after the first had ended with an error
C13_WitnessFailed ==
    /\ Len(tasks) >= 2
    /\ tasks[1].pc = "done" /\ ErrReturns(1) # {}
    /\ tasks[2].pc = "spawned"

\* C15: every event a task was spawned for has kind 5300 and a created_at at or after
\* the start of the subscription.
C15_OnlyNewJobRequests ==
    \A t \in Tasks :
        /\ tasks[t].event.kind = 5300
        /\ tasks[t].event.created_at >= Now

\* C16: an iteration of subscriber that has ended is followed by a new call of
\* subscriber and by nothing else, whether it ended with an error or because the
\* stream closed; so the loop is in or about to start an iteration infinitely often.
C16_IntakeRestarts ==
    /\ [][(intake.pc = "ended" /\ intake' # intake) => intake'.pc = "main"]_vars
    /\ []<>(intake.pc \in {"main", "listening"})

\* the loop is back at the call of subscriber after an iteration that failed, with a
\* task of an earlier iteration still there
C16_Witness ==
    /\ intake.pc = "main"
    /\ intake.last = "Err"
    /\ Len(tasks) > 0

\* a new iteration is listening after the stream of the one before had closed
C16_WitnessClosed ==
    /\ intake.pc = "listening"
    /\ intake.last = "Ok"
    /\ Len(tasks) > 0

(***************************************************************************)
(* SpecListing: one call of from_event on the tags of a listing event, and *)
(* then one call of calculate_order on the listing it returned.            *)
(***************************************************************************)
\* coordinate and geohash tags: latitudes and longitudes of two, one and no decimals,
\* one written with a trailing zero, one that is no number
GeoTagPool ==
    { <<"l", "1.1", "dd.lat">>, <<"l", "2.5", "dd.lat">>, <<"l", "1.10", "dd.lat">>,
      <<"l", "1.12", "dd.lat">>, <<"l", "2.25", "dd.lat">>,
      <<"l", "45", "dd.lat">>, <<"l", "45.0", "dd.lat">>, <<"l", "north", "dd.lat">>,
      <<"L", "2.5", "dd.lon">>, <<"l", "1.1", "dd.lon">>, <<"l", "2.25", "dd.lon">>,
      <<"l", "7", "dd.lon">>,
      <<"g", "u4">>, <<"g", "9q">>, <<"g", "u4pr">> }

GeohashTagPool == { <<"g", "u4">>, <<"g", "9q">>, <<"g", "u4pr">>, <<"g", "u4pru">> }

TagLat == <<"l", "1.1", "dd.lat">>
TagLon == <<"l", "2.5", "dd.lon">>

\* quantity, price and discount tags, well formed and not, and tags of other fields
ListingTagPool ==
    { TagQuantity,
      <<"quantity", "one", "kg", "bag">>,
      <<"quantity", "1", "KG", "bag">>,
      TagPrice,
      <<"price", "ten", "usd", "1", "kg">>,
      <<"price", "10", "usd", "1", "stone">>,
      <<"price", "10", "usd", "1", "KG">>,
      TagDiscount,
      <<"price-discount-subtotal", "five", "usd", "ten", "%">>,
      <<"price-discount-subtotal", "5", "usd", "10">>,
      <<"price-discount-mass", "kg", "lots", "kg", "much", "usd">>,
      <<"price-discount-quantity", "1-kg-bag", "two", "half", "usd">>,
      <<"key", "k1">>,
      <<"location", "a", "r", "c">> }

TagQuantitySack == <<"quantity", "1", "kg", "sack">>

\* discount tags: mass discounts from 1 kg and from 5 kg, the latter with a unit
\* string that is no MassUnit string as threshold_unit or as discount_unit
DiscountTagPool ==
    { TagDiscount,
      <<"price-discount-mass", "kg", "1", "kg", "0.5", "usd">>,
      <<"price-discount-mass", "kg", "5", "KG", "0.5", "usd">>,
      <<"price-discount-mass", "stone", "5", "kg", "0.5", "usd">>,
      <<"price-discount-quantity", "1-kg-bag", "2", "0.5", "usd">> }

ListingTagSeqs ==
    BSeq(GeoTagPool, MaxTags)
    \cup BSeq(ListingTagPool, MaxTags)
    \cup { <<TagLat, TagLon>> \o gs : gs \in BSeq(GeohashTagPool, MaxTags) }

DiscountedTagSeqs ==
    { <<q, TagPrice>> \o ds :
        q \in {TagQuantity, TagQuantitySack}, ds \in BSeq(DiscountTagPool, MaxDiscounts) }

\* orders of 1 kg packagings at 10 usd per kg, labelled as the requester likes
ListingOrders ==
    { [HappyOrder EXCEPT !.quantity.count = c, !.quantity.label = l] :
        c \in 1..MaxCount, l \in {"bag", "sack"} }

InitListing ==
    /\ \/ /\ listing_event \in {ListingEvent(tags) : tags \in ListingTagSeqs}
          /\ order = HappyOrder
       \/ /\ listing_event \in {ListingEvent(tags) : tags \in DiscountedTagSeqs}
          /\ order \in ListingOrders
    /\ classified = None
    /\ listing = <<>>
    /\ result = NoResult
    /\ TaskIdle

\* let ref_classified = EventClassified::from_event(ref_event)
FromEvent ==
    /\ classified = None
    /\ classified' = Some(from_event(listing_event))
    /\ UNCHANGED <<listing, order, result, listing_event>>
    /\ UNCHANGED taskVars

\* ref_classified.calculate_order(&order)
CalculateClassified ==
    /\ classified # None
    /\ result = NoResult
    /\ result' = calculate_order(classified[1], order)
    /\ UNCHANGED <<listing, order, listing_event, classified>>
    /\ UNCHANGED taskVars

NextListing ==
    \/ FromEvent
    \/ CalculateClassified

SpecListing == InitListing /\ [][NextListing]_vars

(***************************************************************************)
(* Properties of from_event, checked under SpecListing.                    *)
(***************************************************************************)
Without(tags, k) == SubSeq(tags, 1, k - 1) \o SubSeq(tags, k + 1, Len(tags))

WithoutTag(k) == from_event([listing_event EXCEPT !.tags = Without(@, k)])

\* a quantity or price tag with all its values, and the strings claimed to decide
IsEntryTag(tag) ==
    \/ tag[1] = "quantity" /\ Len(tag) >= 4
    \/ tag[1] = "price" /\ Len(tag) >= 5

AmountStrings(tag) == IF tag[1] = "quantity" THEN {tag[2]} ELSE {tag[2], tag[4]}

UnitString(tag) == IF tag[1] = "quantity" THEN tag[3] ELSE tag[5]

\* the unit string as the parser of the tag reads it: a price unit is lower-cased
UnitStringRead(tag) == IF tag[1] = "quantity" THEN tag[3] ELSE to_lowercase(tag[5])

IsDiscountTag(tag) ==
    \/ tag[1] = "price-discount-subtotal" /\ Len(tag) >= 5
    \/ tag[1] = "price-discount-mass" /\ Len(tag) >= 6
    \/ tag[1] = "price-discount-quantity" /\ Len(tag) >= 5

\* a numeric field of a discount holds the number its string is, or 0
FieldFrom(field, str) ==
    IF ParseF64(str) = None THEN field = 0 ELSE field = ParseF64(str)[1]

CountFrom(field, str) ==
    IF ParseU32(str) = None THEN field = 0 ELSE field = ParseU32(str)[1]

DiscountFrom(d, tag) ==
    CASE tag[1] = "price-discount-subtotal" ->
            /\ d.type = "subtotal"
            /\ FieldFrom(d.threshold, tag[2]) /\ d.currency = tag[3]
            /\ FieldFrom(d.value, tag[4])
      [] tag[1] = "price-discount-mass" ->
            /\ d.type = "mass"
            /\ d.discount_unit = tag[2] /\ FieldFrom(d.threshold, tag[3])
            /\ d.threshold_unit = tag[4] /\ FieldFrom(d.discount_per_unit, tag[5])
            /\ d.currency = tag[6]
      [] tag[1] = "price-discount-quantity" ->
            /\ d.type = "quantity"
            /\ d.product_key = tag[2] /\ CountFrom(d.min_count, tag[3])
            /\ FieldFrom(d.discount_per_unit, tag[4]) /\ d.currency = tag[5]

DiscountsAppended ==
    LET dts == SelectSeq(listing_event.tags, IsDiscountTag)
        ds  == classified[1].discounts
    IN  /\ Len(ds) = Len(dts)
        /\ \A i \in 1..Len(dts) : DiscountFrom(ds[i], dts[i])

\* C21 as stated: a quantity or price tag whose amount is no number or whose unit
\* string is none of g, kg, oz, lb changes nothing in the listing, and every discount
\* tag with enough values is appended, fields that are no numbers being 0.
C21_Claimed ==
    classified # None =>
        /\ \A k \in 1..Len(listing_event.tags) :
              LET tag == listing_event.tags[k]
              IN  ( /\ IsEntryTag(tag)
                    /\ \/ \E a \in AmountStrings(tag) : ParseF64(a) = None
                       \/ UnitString(tag) \notin UnitStrings )
                  => WithoutTag(k) = classified[1]
        /\ DiscountsAppended

\* C21: a quantity or price tag whose amount is no number or whose unit string, as read
\* (the unit of a price tag lower-cased), is none of g, kg, oz, lb changes nothing in
\* the listing: quantities, prices, discounts, listing fields and location are those of
\* the tags without it; every discount tag with enough values is appended, fields that
\* are no numbers being 0.
C21_BadTagsDropped ==
    classified # None =>
        /\ \A k \in 1..Len(listing_event.tags) :
              LET tag == listing_event.tags[k]
              IN  ( /\ IsEntryTag(tag)
                    /\ \/ \E a \in AmountStrings(tag) : ParseF64(a) = None
                       \/ UnitStringRead(tag) \notin UnitStrings )
                  => WithoutTag(k) = classified[1]
        /\ DiscountsAppended

\* a price tag with an amount that is no number stands between a quantity tag and a
\* discount tag whose numbers are no numbers: one quantity, no price, a discount of 0
C21_Witness ==
    /\ classified # None
    /\ Len(listing_event.tags) = 3
    /\ listing_event.tags[1] = TagQuantity
    /\ listing_event.tags[2] = <<"price", "ten", "usd", "1", "kg">>
    /\ listing_event.tags[3] = <<"price-discount-subtotal", "five", "usd", "ten", "%">>
    /\ Len(classified[1].quantities) = 1
    /\ classified[1].prices = <<>>
    /\ Len(classified[1].discounts) = 1
    /\ classified[1].discounts[1].threshold = 0

\* the locals of from_event after the loop
Folded == classify_tags(listing_event.tags, 1, FoldStart)

\* the values of the coordinate tags of one axis, in tag order
RECURSIVE AxisValues(_, _, _)
AxisValues(tags, k, axis) ==
    IF k > Len(tags) THEN <<>>
    ELSE LET m == nostr_tag_match_l(tags[k])
         IN  (IF m # None /\ m[1].kind = axis THEN <<m[1].value>> ELSE <<>>)
             \o AxisValues(tags, k + 1, axis)

\* digits after the point of a value as Display writes it
Digits(v) == IF v % 100 = 0 THEN 0 ELSE IF v % 10 = 0 THEN 1 ELSE 2

MaxDigits(vs) ==
    IF vs = <<>> THEN 0
    ELSE CHOOSE d \in 0..2 :
            /\ \E i \in 1..Len(vs) : Digits(vs[i]) = d
            /\ \A i \in 1..Len(vs) : Digits(vs[i]) <= d

\* the earliest value among those of the most digits
EarliestFinest(vs) ==
    LET i == CHOOSE i \in 1..Len(vs) :
                /\ Digits(vs[i]) = MaxDigits(vs)
                /\ \A j \in 1..(i - 1) : Digits(vs[j]) < MaxDigits(vs)
    IN  vs[i]

HeldAsClaimed(held, vs) == vs # <<>> => held = Some(EarliestFinest(vs))

HeldAsFolded(held, vs) ==
    IF MaxDigits(vs) > 0 THEN held = Some(EarliestFinest(vs)) ELSE held = None

\* C22 as stated: after the fold the value held for an axis is the earliest of its
\* coordinate tags that has the greatest decimal precision.
C22_Claimed ==
    classified # None =>
        /\ HeldAsClaimed(Folded.lat, AxisValues(listing_event.tags, 1, "dd.lat"))
        /\ HeldAsClaimed(Folded.lng, AxisValues(listing_event.tags, 1, "dd.lon"))

\* C22: after the fold the value held for an axis is the earliest of its coordinate
\* tags that has the greatest decimal precision, the precision being the digits Display
\* writes after the point of the parsed value, provided that precision is above 0; when
\* every coordinate tag of the axis is a whole number no value is held. The
\* geolocation, when there is one, carries the held values.
C22_FinestCoordinateKept ==
    classified # None =>
        /\ HeldAsFolded(Folded.lat, AxisValues(listing_event.tags, 1, "dd.lat"))
        /\ HeldAsFolded(Folded.lng, AxisValues(listing_event.tags, 1, "dd.lon"))
        /\ classified[1].geolocation # None =>
              /\ Some(classified[1].geolocation[1].lat) = Folded.lat
              /\ Some(classified[1].geolocation[1].lng) = Folded.lng

\* 1.1 then 2.5 as latitude: the first of the two equally precise values is kept
C22_Witness ==
    /\ classified # None
    /\ listing_event.tags = <<TagLat, <<"l", "2.5", "dd.lat">>, <<"L", "2.5", "dd.lon">> >>
    /\ classified[1].geolocation # None
    /\ classified[1].geolocation[1].lat = 110

\* 1.1 then 1.12 gives 1.12, and 1.12 then 1.1 gives 1.12
C22_WitnessFiner ==
    /\ classified # None
    /\ listing_event.tags = <<TagLat, <<"l", "1.12", "dd.lat">>, <<"L", "2.5", "dd.lon">> >>
    /\ classified[1].geolocation[1].lat = 112

C22_WitnessCoarser ==
    /\ classified # None
    /\ listing_event.tags = << <<"l", "1.12", "dd.lat">>, TagLat, <<"L", "2.5", "dd.lon">> >>
    /\ classified[1].geolocation[1].lat = 112

\* the geohashes of the geohash tags, in tag order
RECURSIVE Geohashes(_, _)
Geohashes(tags, k) ==
    IF k > Len(tags) THEN <<>>
    ELSE (IF nostr_tag_match_geohash(tags[k]) # None
          THEN <<nostr_tag_match_geohash(tags[k])[1]>> ELSE <<>>)
         \o Geohashes(tags, k + 1)

\* the first of the longest geohashes
EarliestLongest(gs) ==
    LET i == CHOOSE i \in 1..Len(gs) :
                /\ \A j \in 1..Len(gs) : StrLen(gs[j]) <= StrLen(gs[i])
                /\ \A j \in 1..(i - 1) : StrLen(gs[j]) < StrLen(gs[i])
    IN  gs[i]

\* a coordinate of the axis was set during the fold
AxisSet(axis) == MaxDigits(AxisValues(listing_event.tags, 1, axis)) > 0

\* C23: the listing has a geolocation iff a latitude and a longitude were both set
\* during the fold, so never from geohash tags alone; the geohash of a geolocation is
\* the first of the longest geohashes among the geohash tags, none without such tags.
C23_GeolocationNeedsBoth ==
    classified # None =>
        LET gs == Geohashes(listing_event.tags, 1)
            geolocation == classified[1].geolocation
        IN  /\ geolocation # None <=> (AxisSet("dd.lat") /\ AxisSet("dd.lon"))
            /\ geolocation # None =>
                  geolocation[1].geohash = IF gs = <<>> THEN None ELSE Some(EarliestLongest(gs))

\* both coordinates and the geohashes u4, 9q, u4pr: the geolocation holds u4pr
C23_Witness ==
    /\ classified # None
    /\ listing_event.tags = <<TagLat, TagLon, <<"g", "u4">>, <<"g", "9q">>, <<"g", "u4pr">> >>
    /\ classified[1].geolocation # None
    /\ classified[1].geolocation[1].geohash = Some("u4pr")

\* of two geohashes of the same length the first is held
C23_WitnessFirst ==
    /\ classified # None
    /\ listing_event.tags = <<TagLat, TagLon, <<"g", "u4">>, <<"g", "9q">> >>
    /\ classified[1].geolocation[1].geohash = Some("u4")

\* geohash tags and a latitude, no longitude: no geolocation
C23_WitnessAlone ==
    /\ classified # None
    /\ listing_event.tags = << <<"g", "u4">>, TagLat, <<"g", "u4pr">> >>
    /\ classified[1].geolocation = None

\* the coordinate tags of an axis are all whole numbers
WholeOnly(axis) ==
    LET vs == AxisValues(listing_event.tags, 1, axis)
    IN  vs # <<>> /\ \A i \in 1..Len(vs) : vs[i] % 100 = 0

\* C30: a coordinate tag whose value is a whole number never becomes the value held
\* for its axis, not even on an axis that holds nothing; a listing whose latitude tags,
\* or whose longitude tags, are all whole numbers has no geolocation.
C30_WholeNumbersNeverKept ==
    classified # None =>
        /\ Folded.lat # None => Folded.lat[1] % 100 # 0
        /\ Folded.lng # None => Folded.lng[1] % 100 # 0
        /\ (WholeOnly("dd.lat") \/ WholeOnly("dd.lon")) => classified[1].geolocation = None

\* latitudes 45 and 45.0 with a longitude of one decimal: no geolocation
C30_Witness ==
    /\ classified # None
    /\ listing_event.tags = << <<"l", "45", "dd.lat">>, <<"l", "45.0", "dd.lat">>,
                               <<"L", "2.5", "dd.lon">> >>
    /\ Folded.lat = None
    /\ Folded.lng = Some(250)
    /\ classified[1].geolocation = None

(***************************************************************************)
(* Labels of packagings, checked under SpecListing.                        *)
(***************************************************************************)
\* calculate_order has returned for the classified listing
Calculated == classified # None /\ result # NoResult

\* the result is the refusal of the requested packaging
PackagingRefused ==
    /\ ~result.ok
    /\ result.reason = "requested packaging " \o FmtF64(order.quantity.amount) \o " "
                       \o order.quantity.unit \o " not available"

\* the listing offers the unit and amount of the request under some label
OfferedUnderAnyLabel ==
    \E i \in 1..Len(classified[1].quantities) :
        /\ classified[1].quantities[i].unit = MassUnitFromStr(order.quantity.unit).unit
        /\ classified[1].quantities[i].amount = order.quantity.amount

\* the listing offers the unit and amount of the request under the label of the request
OfferedUnderLabel ==
    \E i \in 1..Len(classified[1].quantities) :
        /\ classified[1].quantities[i].unit = MassUnitFromStr(order.quantity.unit).unit
        /\ classified[1].quantities[i].amount = order.quantity.amount
        /\ classified[1].quantities[i].label = order.quantity.label

\* the key of the request as the discount loop builds it, from the label of the request
RequestKey ==
    FmtF64(order.quantity.amount) \o "-" \o to_lowercase(order.quantity.unit) \o "-"
    \o order.quantity.label

\* the quantity discounts of the listing that the request earns
EarnedQuantityDiscounts ==
    {i \in 1..Len(classified[1].discounts) :
        /\ classified[1].discounts[i].type = "quantity"
        /\ classified[1].discounts[i].product_key = RequestKey
        /\ order.quantity.count >= classified[1].discounts[i].min_count}

QuantityDiscountsGiven ==
    {k \in 1..Len(result.discounts) : result.discounts[k].discount_type = "quantity"}

\* C27: a request is refused for its packaging exactly when the listing has no quantity
\* of its unit and amount, whatever the labels; and a successful result holds one
\* Quantity discount for each quantity discount of the listing whose product key is
\* "<amount>-<unit>-<label>" built with the label of the request and whose min_count
\* the count reaches, whether or not the listing offers the packaging under that label.
C27_LabelNeverCompared ==
    Calculated =>
      /\ PackagingRefused <=> ~OfferedUnderAnyLabel
      /\ result.ok =>
           Cardinality(QuantityDiscountsGiven) = Cardinality(EarnedQuantityDiscounts)

\* a listing that offers 1 kg only as "sack" and discounts "1-kg-bag": the request
\* labelled "bag" succeeds with the Quantity discount
C27_Witness ==
    /\ Calculated
    /\ result.ok
    /\ order.quantity.label = "bag"
    /\ OfferedUnderAnyLabel
    /\ ~OfferedUnderLabel
    /\ QuantityDiscountsGiven # {}

\* the same listing asked under its own label "sack": no Quantity discount
C27_WitnessOwnLabel ==
    /\ Calculated
    /\ result.ok
    /\ order.quantity.label = "sack"
    /\ OfferedUnderLabel
    /\ order.quantity.count >= 2
    /\ \E i \in 1..Len(classified[1].discounts) : classified[1].discounts[i].type = "quantity"
    /\ QuantityDiscountsGiven = {}

(***************************************************************************)
(* Units of mass discounts, checked under SpecListing.                     *)
(***************************************************************************)
\* the discount tags of the listing event, in tag order
DiscountTags == SelectSeq(listing_event.tags, IsDiscountTag)

\* the mass discounts of the classified listing with a unit string outside g, kg, oz, lb
BadMassDiscounts ==
    {i \in 1..Len(classified[1].discounts) :
        /\ classified[1].discounts[i].type = "mass"
        /\ \/ classified[1].discounts[i].threshold_unit \notin UnitStrings
           \/ classified[1].discounts[i].discount_unit \notin UnitStrings}

FirstBadMassDiscount == CHOOSE i \in BadMassDiscounts : \A j \in BadMassDiscounts : i <= j

\* the listing tiers of the unit, quantity amount and currency of the request
ClassifiedTiers ==
    {i \in 1..Len(classified[1].prices) :
        /\ classified[1].prices[i].quantity_unit
             = MassUnitFromStr(order.price.quantity_unit).unit
        /\ classified[1].prices[i].quantity_amount = order.price.quantity_amount
        /\ to_lowercase(classified[1].prices[i].currency) = to_lowercase(order.price.currency)}

\* the request passes the packaging test and the tier test
PassesValidation ==
    /\ OfferedUnderAnyLabel
    /\ ClassifiedTiers # {}
    /\ LET t == CHOOSE i \in ClassifiedTiers : \A j \in ClassifiedTiers : i <= j
       IN  classified[1].prices[t].amount = order.price.amount

\* the ordered mass is below the threshold of mass discount i, read in kg
BelowThreshold(i) ==
    /\ order.quantity.unit = "kg"
    /\ to_lowercase(classified[1].discounts[i].threshold_unit) = "kg"
    /\ order.quantity.amount * order.quantity.count < classified[1].discounts[i].threshold

\* C29: from_event keeps discount_unit and threshold_unit of a mass discount tag as
\* the strings of the tag; calculate_order parses both before it tests the threshold,
\* so on a listing with a mass discount whose threshold_unit or discount_unit is none
\* of g, kg, oz, lb every request that passes the packaging and tier tests fails
\* Unsatisfiable for the invalid unit of the first such discount, below the threshold
\* too and whatever discounts precede; without such a discount the request succeeds.
C29_MassUnitsCheckedFirst ==
    /\ classified # None =>
         /\ Len(classified[1].discounts) = Len(DiscountTags)
         /\ \A i \in 1..Len(DiscountTags) :
               DiscountTags[i][1] = "price-discount-mass" =>
                 /\ classified[1].discounts[i].type = "mass"
                 /\ classified[1].discounts[i].discount_unit = DiscountTags[i][2]
                 /\ classified[1].discounts[i].threshold_unit = DiscountTags[i][4]
    /\ (Calculated /\ PassesValidation) =>
         IF BadMassDiscounts = {} THEN result.ok
         ELSE result =
                Unsatisfiable(
                    IF classified[1].discounts[FirstBadMassDiscount].threshold_unit
                         \notin UnitStrings
                    THEN "invalid threshold unit" ELSE "invalid discount unit")

\* a valid discount, then a mass discount from 5 kg with discount_unit "stone": the
\* request of 2 kg, below the threshold, fails for the invalid discount unit
C29_Witness ==
    /\ Calculated
    /\ PassesValidation
    /\ Len(classified[1].discounts) = 2
    /\ BadMassDiscounts = {2}
    /\ classified[1].discounts[2].discount_unit = "stone"
    /\ BelowThreshold(2)
    /\ result = Unsatisfiable("invalid discount unit")

\* a mass discount from 5 "KG": the request below the threshold fails for the invalid
\* threshold unit
C29_WitnessThreshold ==
    /\ Calculated
    /\ PassesValidation
    /\ BadMassDiscounts # {}
    /\ classified[1].discounts[FirstBadMassDiscount].threshold_unit = "KG"
    /\ BelowThreshold(FirstBadMassDiscount)
    /\ result = Unsatisfiable("invalid threshold unit")

(***************************************************************************)
(* SpecPair: the tasks of two job requests the subscriber has received,    *)
(* the first with two inputs, run side by side.                            *)
(***************************************************************************)
PairFirstInputs ==
    { << <<"i", DataOrderE1, "text", "wss://r", "order">>,
         <<"i", "q", "text", "wss://r", "quote">> >>,
      << <<"i", DataOrderE1, "text", "wss://r", "order">>,
         <<"i", DataNotJson, "text", "wss://r", "order">> >>,
      << <<"i", DataNotJson, "text", "wss://r", "order">>,
         <<"i", DataOrderE1, "text", "wss://r", "order">> >> }

PairSecondInputs ==
    { << <<"i", "q", "text", "wss://r", "quote">> >>,
      << <<"i", "x", "text", "wss://r", "cancel">> >>,
      << <<"i", DataOrderE1, "text", "wss://r", "order">> >> }

PairStores == { {}, {ListingEvent(<<TagQuantity, TagPrice, TagDiscount>>)} }

InitPair ==
    /\ \E a \in PairFirstInputs, b \in PairSecondInputs :
          tasks = << NewTask(JobEvent(a, PlainContent)),
                     NewTask([JobEvent(b, PlainContent) EXCEPT !.id = "j2"]) >>
    /\ sends = <<>>
    /\ store \in PairStores
    /\ intake = IntakeOff
    /\ CalcIdle

SpecPair == InitPair /\ [][Next]_vars

\* the runtime polls every spawned task; a relay that holds the event delivers it
SpecPairFair == InitPair /\ [][Next]_vars /\ Fairness

PairTasks == {1, 2}

\* the sends of task t, as the inputs they were made for, in the order made
RECURSIVE SendInputs(_, _)
SendInputs(t, k) ==
    IF k > Len(sends) THEN <<>>
    ELSE (IF sends[k].task = t THEN <<sends[k].input>> ELSE <<>>) \o SendInputs(t, k + 1)

\* the inputs of task t are taken one at a time and in order
InSequence(t) ==
    LET d  == tasks[t].dispatched
        r  == tasks[t].returned
        si == SendInputs(t, 1)
    IN  /\ \A k \in 1..Len(d) : d[k][1] = k
        /\ \A k \in 1..Len(r) : r[k][1] = k
        /\ Len(r) <= Len(d) /\ Len(d) <= Len(r) + 1
        /\ \A k \in 1..Len(r) :
              r[k][2] = "Err" => \E n \in SendsOf(t, k, 7000) : TRUE
        /\ \A k \in 1..Len(si) : si[k] <= Len(d) /\ (si[k] < Len(d) => si[k] <= Len(r))
        /\ \A a, b \in 1..Len(si) : a < b => si[a] <= si[b]
        /\ tasks[t].pc = "order_fetch" => Len(r) = Len(d) - 1

\* C24: the inputs of a message are handled strictly one after another in tag order:
\* input k+1 is dispatched, and anything published for it, only after the handler of
\* input k has returned and, if it failed, its feedback was handed to the client; a
\* task that stays in the fetch of a listing dispatches nothing further; and whatever
\* one task does, the other is eventually over or waiting in a fetch of its own.
C24_InputsOneAfterAnother ==
    /\ [](\A t \in PairTasks : InSequence(t))
    /\ [][\A t \in PairTasks :
            (tasks[t].pc = "order_fetch" /\ tasks'[t].pc = "order_fetch")
            => tasks'[t].dispatched = tasks[t].dispatched]_vars
    /\ \A t \in PairTasks : <>(Finished(t) \/ tasks[t].pc = "order_fetch")

\* the first task waits for a listing no relay holds, its second input not dispatched,
\* while the task of the other message is over
C24_Witness ==
    /\ Len(tasks) = 2
    /\ store = {}
    /\ tasks[1].pc = "order_fetch"
    /\ Len(Inputs(1)) = 2
    /\ Len(tasks[1].dispatched) = 1
    /\ Finished(2)
    /\ tasks[2].job_req # None

====
